---- MODULE Spec2Model ----
(***************************************************************************)
(* Session engine of the EQ extension: the control plane (MV3 service      *)
(* worker, background.js) and the audio host (offscreen document,          *)
(* offscreen.js).  Both are single-threaded event loops; every `await` of  *)
(* the source is a point where the other handlers may run, so every        *)
(* handler is cut into one action per await.  The popup (Popup.jsx,        *)
(* Controls.jsx) is modelled by the handlers that compute and send the     *)
(* filters' values.                                                        *)
(***************************************************************************)
EXTENDS Integers, Sequences, FiniteSets, TLC

\* ------------------------------------------------------------------ bounds
\* handler invocations of the control plane in flight at once (besides startup)
MaxCalls == 2
\* tab ids the popup asks about
MaxTab == 1
\* tab ids of the sessions a configuration starts with
MaxIds == 2
\* stream ids in use at once: more than the registry, the graphs and the
\* requests in flight hold together, so getMediaStreamId never runs out
MaxHandle == 8
\* clicks, key strokes and mouse events one opened popup handles
MaxEvents == 4
\* presets the popup lists at once
MaxPresets == 2

Calls == 1..MaxCalls
Slots == 0..MaxCalls
TabIds == 1..MaxTab
\* a message may carry a falsy tabId (0 / undefined): `!tabId` is true for it
TabInputs == 0..MaxTab

\* ------------------------------------------------------- JavaScript Map
\* A Map is a sequence of entries in insertion order; entry.k is the key.
Keys(m) == [i \in 1..Len(m) |-> m[i].k]
KeySet(m) == {m[i].k : i \in 1..Len(m)}
Has(m, k) == k \in KeySet(m)
Get(m, k) == m[CHOOSE i \in 1..Len(m) : m[i].k = k]
MapSet(m, e) ==
  IF Has(m, e.k) THEN [i \in 1..Len(m) |-> IF m[i].k = e.k THEN e ELSE m[i]]
  ELSE Append(m, e)
\* Map.prototype.clear in place of delete: every entry goes
MapClear(m, k) == SelectSeq(m, LAMBDA e : FALSE)
MapDelete(m, k) == SelectSeq(m, LAMBDA e : e.k # k)
SeqSet(s) == {s[i] : i \in 1..Len(s)}
\* an object without keys: {}
NoMap == [i \in {} |-> 0]

VARIABLES
  eqSessions,    \* background.js: Map<tabId, {streamId, status}>
  startingTabs,  \* background.js: Set of tabIds whose start is in flight
  audioGraphs,   \* offscreen.js: Map<tabId, graph>
  offDoc,        \* chrome.offscreen.hasDocument()
  calls,         \* slot -> the handler invocation running in it (slot 0: startup)
  undisturbed,   \* no handler other than startup rehydration ran since the reload
  popup          \* Popup.jsx: the popup's React state, localStorage and last command

vars == <<eqSessions, startingTabs, audioGraphs, offDoc, calls, undisturbed,
          popup>>

\* A handler invocation.  op: which handler; tab: msg.tabId; pc: the await the
\* control-plane coroutine is parked at; msg/h/hres: the request it sent to the
\* audio host, the host handler's position and its answer; cur/sid: the tabId and
\* streamId of that request; keys/missing/reinit: locals of the handler;
\* ctx: the AudioContext the host's INIT_AUDIO handler holds in its local;
\* arg/reply: the payload of the request to the host and of its answer;
\* snap/ids: the tabIds / the tabId -> streamId map the audio host answered;
\* res: what the caller was answered; readded/later: since this STOP_EQ began,
\* tab was put back into eqSessions / a START_EQ for tab arrived; listed: this
\* START_EQ, still running, arrived when eqSessions held its tab.
Idle ==
  [op |-> "none", tab |-> 0, pc |-> "free", msg |-> "none", h |-> "idle",
   hres |-> "none", cur |-> 0, sid |-> 0, ctx |-> "none", keys |-> <<>>,
   snap |-> <<>>, ids |-> <<>>, arg |-> <<>>, reply |-> <<>>,
   missing |-> <<>>, reinit |-> <<>>, res |-> "none", readded |-> FALSE,
   later |-> FALSE, listed |-> FALSE]

\* background.js:66-75: the startup IIFE has called ensureOffscreen and is
\* parked at `await chrome.offscreen.hasDocument()`
Startup == [Idle EXCEPT !.op = "rehydrate", !.pc = "has"]

\* Popup.jsx:61, 77-86: the popup that has not been opened.  tab: currentTabId
\* (0: null); pos: the y offsets of nodePositions; gain/freq/q/baseQ:
\* nodeGainValues, nodeFrequencyValues, nodeQValues, nodeBaseQValues; presets:
\* savedPresets; saved: localStorage's eqCurrentState; sent: the last
\* UPDATE_EQ_NODES message; name: presetName, in UTF-16 code units; selected:
\* selectedPreset (<<>>: null); drag: the props of the render whose
\* handleMouseMove is registered (Controls.jsx:296-306); ensure: the values
\* each running ensureBackendReady closed over; main: the currentTabId each
\* running handleStopEqAndReset / handleStartEqAndReset closed over;
\* activeTab: the tab shown; lastEnsure: lastEnsureTimeRef (0, or 1 for the
\* time of the last call let through); boot: where the mount effect's boot()
\* is; events: the clicks, key strokes and mouse events the popup has handled.
\* eqActive and volume are not kept: no handler's effect on the fields above
\* depends on them
Closed ==
  [tab |-> 0, pos |-> NoMap, gain |-> NoMap, freq |-> NoMap, q |-> NoMap,
   baseQ |-> NoMap, presets |-> <<>>, saved |-> <<>>, sent |-> <<>>,
   name |-> <<>>, selected |-> <<>>, drag |-> <<>>, ensure |-> <<>>,
   main |-> <<>>, activeTab |-> "Controls", lastEnsure |-> 0,
   boot |-> "idle", events |-> 0]

Init ==
  /\ eqSessions = <<>>
  /\ startingTabs = {}
  /\ audioGraphs = <<>>
  /\ offDoc = FALSE
  /\ calls = [s \in Slots |-> IF s = 0 THEN Startup ELSE Idle]
  /\ undisturbed = TRUE
  /\ popup = Closed


\* ------------------------------------------------------ bookkeeping
\* STOP_EQ invocations remember what happened to their tab since they began
Mark(r, added, arrived) ==
  IF r.op = "stop"
  THEN [r EXCEPT !.readded = @ \/ (r.tab \in added),
                 !.later = @ \/ (r.tab \in arrived)]
  ELSE r
Put(c, r, added, arrived) ==
  calls' = [s \in Slots |-> IF s = c THEN r ELSE Mark(calls[s], added, arrived)]
Step(c, r) == Put(c, r, {}, {})
\* a new invocation takes the lowest free slot
Free(c) == calls[c].pc = "free" /\ \A d \in Calls : d < c => calls[d].pc # "free"
\* stream ids some map, request or snapshot still holds
HandlesInUse ==
  {eqSessions[i].streamId : i \in 1..Len(eqSessions)}
    \cup {audioGraphs[i].streamId : i \in 1..Len(audioGraphs)}
    \cup {calls[s].sid : s \in Slots}
    \cup UNION {{calls[s].ids[i].streamId : i \in 1..Len(calls[s].ids)} :
                 s \in Slots}
\* chrome.tabCapture.getMediaStreamId grants an id no one holds
CanGrant == (1..MaxHandle) \ HandlesInUse # {}
FreshHandle == CHOOSE n \in (1..MaxHandle) \ HandlesInUse :
                 \A m \in (1..MaxHandle) \ HandlesInUse : n <= m
Quiet(c) == undisturbed' = (undisturbed /\ c = 0)
\* sendToOffscreen / chrome.runtime.sendMessage: the request is in flight
\* (background.js:96-104); without a receiver lastError is set
SendTo(r, type, tabId, streamId, listening) ==
  [r EXCEPT !.msg = type, !.cur = tabId, !.sid = streamId,
            !.h = IF listening THEN "sent" ELSE "resp",
            !.hres = IF listening THEN "none" ELSE "err"]
Send(r, type, tabId, streamId) == SendTo(r, type, tabId, streamId, offDoc)
\* the response (or chrome.runtime.lastError) has been consumed
Received(r) ==
  [r EXCEPT !.msg = "none", !.h = "idle", !.hres = "none", !.ctx = "none"]
\* the handler has answered its caller (or, at startup, has finished)
Done(r, result) ==
  [r EXCEPT !.pc = "done", !.res = result, !.cur = 0, !.sid = 0,
            !.ctx = "none", !.keys = <<>>,
            !.snap = <<>>, !.ids = <<>>, !.missing = <<>>,
            !.listed = FALSE]

\* ------------------------------------------- control plane: startEqForTab
LockNeverHeld(t) == FALSE
\* background.js:113
LockHeld(t) == t \in startingTabs
LockKept(t) == startingTabs
\* background.js:160 (finally)
ReleaseLock(t) == startingTabs \ {t}
\* background.js:120
NoTabId(t) == t = 0
\* background.js:123
AlreadyActive(t) == Has(eqSessions, t)
\* background.js:137
StartingEntry(t, streamId) == [k |-> t, streamId |-> streamId, status |-> "starting"]
\* background.js:149-153: the result after the INIT_AUDIO acknowledgement
StartResult(hres) == "ok"
\* background.js:149-151
Activated(e) == [e EXCEPT !.status = "active"]

\* every `return` inside the try block, then the finally block
StartReturn(c, r, result, sessions) ==
  /\ Put(c, Done(r, result), {}, {})
  /\ startingTabs' = ReleaseLock(r.tab)
  /\ eqSessions' = sessions
\* background.js:154-161: catch, then finally
StartCatch(c, r) ==
  StartReturn(c, r, "error", MapDelete(eqSessions, r.tab))

\* background.js:205-212, 111-118: START_EQ arrives; runs up to the first await
StartCall(c, t) ==
  /\ Free(c)
  /\ LET r == [Idle EXCEPT !.op = "start", !.tab = t]
     IN IF LockHeld(t)
        THEN /\ Put(c, Done(r, "alreadyStarting"), {}, {t})
             /\ UNCHANGED startingTabs
        ELSE /\ Put(c, [r EXCEPT !.pc = "has", !.listed = Has(eqSessions, t)],
                  {}, {t})
             /\ startingTabs' = startingTabs \cup {t}
  /\ Quiet(c)
  /\ UNCHANGED popup
  /\ UNCHANGED <<eqSessions, audioGraphs, offDoc>>

\* background.js:118-134: ensureOffscreen has returned
StartAfterEnsure(c) ==
  LET r == calls[c] IN
  IF NoTabId(r.tab) THEN StartReturn(c, r, "error", eqSessions)
  ELSE IF AlreadyActive(r.tab) THEN StartReturn(c, r, "alreadyActive", eqSessions)
  ELSE /\ Step(c, [r EXCEPT !.pc = "cap"])
       /\ UNCHANGED <<eqSessions, startingTabs>>

\* background.js:132-145: getMediaStreamId settles
StartCaptured(c, granted) ==
  LET r == calls[c] IN
  /\ r.op = "start" /\ r.pc = "cap"
  /\ IF granted
     THEN /\ CanGrant
          /\ eqSessions' = MapSet(eqSessions, StartingEntry(r.tab, FreshHandle))
          /\ Put(c, [Send(r, "INIT_AUDIO", r.tab, FreshHandle) EXCEPT !.pc = "init"],
                 {r.tab}, {})
          /\ UNCHANGED startingTabs
     ELSE StartCatch(c, r)
  /\ Quiet(c)
  /\ UNCHANGED popup
  /\ UNCHANGED <<audioGraphs, offDoc>>

\* background.js:141-161: the INIT_AUDIO acknowledgement (or lastError) arrives
StartAcked(c) ==
  LET r == calls[c] IN
  /\ r.op = "start" /\ r.pc = "init" /\ r.h = "resp"
  /\ IF r.hres = "err" THEN StartCatch(c, Received(r))
     ELSE IF r.hres = "ok" /\ ~Has(eqSessions, r.tab)
     THEN \* eqSessions.get(tabId) is undefined: TypeError, caught
          StartCatch(c, Received(r))
     ELSE StartReturn(c, Received(r), StartResult(r.hres),
            IF r.hres = "ok"
            THEN MapSet(eqSessions, Activated(Get(eqSessions, r.tab)))
            ELSE eqSessions)
  /\ Quiet(c)
  /\ UNCHANGED popup
  /\ UNCHANGED <<audioGraphs, offDoc>>

\* ---------------------------------------------- control plane: STOP_EQ
\* background.js:228
StopRemoves(t) == MapDelete(eqSessions, t)
StopAlwaysOk(hres) == "ok"
\* background.js:236-238: what the caller is answered
StopResult(hres) == IF hres = "ok" THEN "ok" ELSE "error"

\* background.js:222-234: STOP_EQ arrives; delete, then forward to offscreen
StopCall(c, t) ==
  /\ Free(c)
  /\ eqSessions' = StopRemoves(t)
  /\ Step(c, [Send(Idle, "STOP_EQ", t, 0) EXCEPT
                !.op = "stop", !.tab = t, !.pc = "stop"])
  /\ Quiet(c)
  /\ UNCHANGED popup
  /\ UNCHANGED <<startingTabs, audioGraphs, offDoc>>

\* background.js:231-239: offscreen's answer (or lastError) arrives
StopAcked(c) ==
  LET r == calls[c] IN
  /\ r.op = "stop" /\ r.pc = "stop" /\ r.h = "resp"
  /\ Step(c, Done(Received(r), StopResult(r.hres)))
  /\ Quiet(c)
  /\ UNCHANGED popup
  /\ UNCHANGED <<eqSessions, startingTabs, audioGraphs, offDoc>>

\* ---------------------------- control plane: SET_VOLUME and GET_VOLUME
\* background.js:249-256: SET_VOLUME arrives and is forwarded
SetVolumeCall(c, t, v) ==
  /\ Free(c)
  /\ Step(c, [Send(Idle, "SET_VOLUME", t, 0) EXCEPT
                !.op = "setvol", !.tab = t, !.pc = "vol", !.arg = v])
  /\ Quiet(c)
  /\ UNCHANGED popup
  /\ UNCHANGED <<eqSessions, startingTabs, audioGraphs, offDoc>>
\* background.js:280-286: GET_VOLUME arrives and is forwarded
GetVolumeCall(c, t) ==
  /\ Free(c)
  /\ Step(c, [Send(Idle, "GET_VOLUME", t, 0) EXCEPT
                !.op = "getvol", !.tab = t, !.pc = "vol"])
  /\ Quiet(c)
  /\ UNCHANGED popup
  /\ UNCHANGED <<eqSessions, startingTabs, audioGraphs, offDoc>>
\* background.js:257-259, 287-289: the host's answer is passed on; a rejected
\* send is answered ok:false
VolumeResult(hres) == IF hres = "ok" THEN "ok" ELSE "error"
\* background.js:252-260, 283-290: offscreen's answer (or lastError) arrives
VolumeAcked(c) ==
  LET r == calls[c] IN
  /\ r.op \in {"setvol", "getvol"} /\ r.pc = "vol" /\ r.h = "resp"
  /\ Step(c, Done(Received(r), VolumeResult(r.hres)))
  /\ Quiet(c)
  /\ UNCHANGED popup
  /\ UNCHANGED <<eqSessions, startingTabs, audioGraphs, offDoc>>

\* ------------------------------------- control plane: tabs.onRemoved
\* background.js:165-175: the listener runs; a tab without a session is ignored
TabRemoved(c, t) ==
  /\ Free(c)
  /\ LET r == [Idle EXCEPT !.op = "removed", !.tab = t]
     IN IF Has(eqSessions, t)
        THEN Step(c, [Send(r, "STOP_EQ", t, 0) EXCEPT !.pc = "stop"])
        ELSE Step(c, Done(r, "ignored"))
  /\ Quiet(c)
  /\ UNCHANGED popup
  /\ UNCHANGED <<eqSessions, startingTabs, audioGraphs, offDoc>>

\* background.js:172-181: the session is deleted after offscreen answered or failed
RemovedAcked(c) ==
  LET r == calls[c] IN
  /\ r.op = "removed" /\ r.pc = "stop" /\ r.h = "resp"
  /\ eqSessions' = MapDelete(eqSessions, r.tab)
  /\ Step(c, Done(Received(r), "ok"))
  /\ Quiet(c)
  /\ UNCHANGED popup
  /\ UNCHANGED <<startingTabs, audioGraphs, offDoc>>

\* ------------------------------------- control plane: synchronous queries
\* background.js:269-272: the GET_EQ_STATUS answer
StatusReply(t) == IF Has(eqSessions, t) THEN "active" ELSE "inactive"
\* background.js:299-301: the GET_ALL_ACTIVE_TABS answer
ListReply == Keys(eqSessions)

\* background.js:269-274
QueryStatus(c, t) ==
  /\ Free(c)
  /\ Step(c, Done([Idle EXCEPT !.op = "status", !.tab = t], StatusReply(t)))
  /\ Quiet(c)
  /\ UNCHANGED popup
  /\ UNCHANGED <<eqSessions, startingTabs, audioGraphs, offDoc>>

\* background.js:299-303
ListActiveSessions(c) ==
  /\ Free(c)
  /\ Step(c, [Done([Idle EXCEPT !.op = "list"], "ok") EXCEPT !.reinit = ListReply])
  /\ Quiet(c)
  /\ UNCHANGED popup
  /\ UNCHANGED <<eqSessions, startingTabs, audioGraphs, offDoc>>

\* ------------------------------- control plane: REINIT_MISSING_AUDIO
\* background.js:333-335: sessions of the registry the offscreen did not report
MissingTabs(activeTabIds, offscreenTabIds) ==
  SelectSeq(activeTabIds, LAMBDA t : t \notin SeqSet(offscreenTabIds))
\* background.js:360-361
Reinitialized(e, freshStreamId) ==
  [e EXCEPT !.streamId = freshStreamId, !.status = "active"]

ReconcileDropped(tabId) == MapDelete(eqSessions, tabId)
\* background.js:365-367: the per-tab catch only logs; the registry stays as is
ReconcileSkipped(tabId) == eqSessions

\* background.js:311-315: REINIT_MISSING_AUDIO arrives
ReconcileCall(c) ==
  /\ Free(c)
  /\ Step(c, [Idle EXCEPT !.op = "reconcile", !.pc = "has"])
  /\ Quiet(c)
  /\ UNCHANGED popup
  /\ UNCHANGED <<eqSessions, startingTabs, audioGraphs, offDoc>>

\* background.js:346-351, 370: the next missing tab, or the answer; the
\* freshStreamId of the tab just handled is a const of the loop body (349)
ReconcileNext(c, r) ==
  IF r.missing = <<>>
  THEN Step(c, Done(r, "ok"))
  ELSE Step(c, [r EXCEPT !.pc = "cap", !.cur = Head(r.missing),
                         !.missing = Tail(r.missing), !.sid = 0])

\* background.js:317-327: ensureOffscreen has returned
ReconcileAfterEnsure(c) ==
  LET r == [calls[c] EXCEPT !.keys = Keys(eqSessions)] IN
  /\ IF r.keys = <<>>
     THEN Step(c, Done(r, "ok"))
     ELSE \* ensureOffscreen has just seen or created the document
          Step(c, [SendTo(r, "GET_ACTIVE_TABS", 0, 0, TRUE) EXCEPT !.pc = "tabs"])
  /\ UNCHANGED <<eqSessions, startingTabs>>

\* background.js:371-374: the outer catch
ReconcileFailed(c, r) ==
  /\ Step(c, Done(r, "error"))
  /\ UNCHANGED <<eqSessions, startingTabs>>

\* background.js:325-351: offscreen's GET_ACTIVE_TABS answer arrives
ReconcileListed(c) ==
  LET r == calls[c] IN
  /\ r.op = "reconcile" /\ r.pc = "tabs" /\ r.h = "resp"
  /\ IF r.hres = "err" THEN ReconcileFailed(c, Received(r))
     ELSE /\ ReconcileNext(c, [Received(r) EXCEPT
                                 !.missing = MissingTabs(r.keys, r.snap)])
          /\ UNCHANGED <<eqSessions, startingTabs>>
  /\ Quiet(c)
  /\ UNCHANGED popup
  /\ UNCHANGED <<audioGraphs, offDoc>>

\* background.js:349-357, 365-367: getMediaStreamId settles for the current tab
ReconcileCaptured(c, granted) ==
  LET r == calls[c] IN
  /\ r.op = "reconcile" /\ r.pc = "cap"
  /\ IF granted
     THEN /\ CanGrant
          /\ Step(c, [Send(r, "INIT_AUDIO", r.cur, FreshHandle) EXCEPT !.pc = "init"])
     ELSE ReconcileNext(c, r)
  /\ eqSessions' = IF granted THEN eqSessions ELSE ReconcileSkipped(r.cur)
  /\ Quiet(c)
  /\ UNCHANGED popup
  /\ UNCHANGED <<startingTabs, audioGraphs, offDoc>>

\* background.js:353-368: the INIT_AUDIO acknowledgement (or lastError) arrives
ReconcileAcked(c) ==
  LET r == calls[c] IN
  /\ r.op = "reconcile" /\ r.pc = "init" /\ r.h = "resp"
  /\ IF r.hres = "ok" /\ Has(eqSessions, r.cur)
     THEN /\ eqSessions' =
               MapSet(eqSessions, Reinitialized(Get(eqSessions, r.cur), r.sid))
          /\ ReconcileNext(c, [Received(r) EXCEPT !.reinit = Append(@, r.cur)])
     ELSE \* ok:false, lastError, or the TypeError of a vanished entry: next tab
          /\ ReconcileNext(c, Received(r))
          /\ eqSessions' = ReconcileSkipped(r.cur)
  /\ Quiet(c)
  /\ UNCHANGED popup
  /\ UNCHANGED <<startingTabs, audioGraphs, offDoc>>

\* --------------------------------- control plane: rehydrateEqSessions
RehydratedWithoutHandle(tabId, streamIds) ==
  [k |-> tabId, streamId |-> 0, status |-> "active"]
\* background.js:52-55: the entry rebuilt for a tab the offscreen reported
RehydratedEntry(tabId, streamIds) ==
  [k |-> tabId,
   streamId |-> IF Has(streamIds, tabId) THEN Get(streamIds, tabId).streamId ELSE 0,
   status |-> "active"]

RECURSIVE RehydrateAll(_, _, _)
\* background.js:50-56: forEach over the reported tabIds
RehydrateAll(sessions, tabIds, streamIds) ==
  IF tabIds = <<>> THEN sessions
  ELSE RehydrateAll(MapSet(sessions, RehydratedEntry(Head(tabIds), streamIds)),
                    Tail(tabIds), streamIds)

\* background.js:69-71, 30-36: ensureOffscreen has returned
RehydrateAfterEnsure(c) ==
  /\ Step(c, [SendTo(calls[c], "GET_ACTIVE_TABS", 0, 0, TRUE) EXCEPT !.pc = "tabs"])
  /\ UNCHANGED <<eqSessions, startingTabs>>

\* background.js:59-62, 72-74: the catch blocks
RehydrateFailed(c, r) ==
  /\ Step(c, Done(r, "error"))
  /\ UNCHANGED <<eqSessions, startingTabs>>

\* background.js:38-46: the GET_ACTIVE_TABS answer arrives
RehydrateListed(c) ==
  LET r == calls[c] IN
  /\ r.op = "rehydrate" /\ r.pc = "tabs" /\ r.h = "resp"
  /\ IF r.hres = "err" THEN RehydrateFailed(c, Received(r))
     ELSE /\ Step(c, [Send(r, "GET_STREAM_IDS", 0, 0) EXCEPT
                        !.pc = "ids", !.keys = r.snap])
          /\ UNCHANGED <<eqSessions, startingTabs>>
  /\ Quiet(c)
  /\ UNCHANGED popup
  /\ UNCHANGED <<audioGraphs, offDoc>>

\* background.js:48-57: the GET_STREAM_IDS answer arrives
RehydrateApplied(c) ==
  LET r == calls[c] IN
  /\ r.op = "rehydrate" /\ r.pc = "ids" /\ r.h = "resp"
  /\ IF r.hres = "err" THEN RehydrateFailed(c, Received(r))
     ELSE /\ eqSessions' = RehydrateAll(eqSessions, r.keys, r.ids)
          /\ Put(c, Done(Received(r), "ok"), SeqSet(r.keys), {})
          /\ UNCHANGED startingTabs
  /\ Quiet(c)
  /\ UNCHANGED popup
  /\ UNCHANGED <<audioGraphs, offDoc>>

\* ------------------------------------ control plane: ensureOffscreen
AfterEnsure(c) ==
  CASE calls[c].op = "start" -> StartAfterEnsure(c)
    [] calls[c].op = "reconcile" -> ReconcileAfterEnsure(c)
    [] calls[c].op = "rehydrate" -> RehydrateAfterEnsure(c)

\* createDocument rejected: the caller's catch block
EnsureThrew(c) ==
  CASE calls[c].op = "start" -> StartCatch(c, calls[c])
    [] calls[c].op = "reconcile" -> ReconcileFailed(c, calls[c])
    [] calls[c].op = "rehydrate" -> RehydrateFailed(c, calls[c])

\* background.js:81-82: hasDocument settles
EnsureChecked(c) ==
  /\ calls[c].pc = "has"
  /\ IF offDoc THEN AfterEnsure(c)
     ELSE /\ Step(c, [calls[c] EXCEPT !.pc = "create"])
          /\ UNCHANGED <<eqSessions, startingTabs>>
  /\ Quiet(c)
  /\ UNCHANGED popup
  /\ UNCHANGED <<audioGraphs, offDoc>>

\* background.js:84-89: createDocument settles; Chrome rejects it when a document
\* exists by then (only a single offscreen document may be created)
EnsureCreated(c) ==
  /\ calls[c].pc = "create"
  /\ IF offDoc
     THEN EnsureThrew(c) /\ UNCHANGED offDoc
     ELSE AfterEnsure(c) /\ offDoc' = TRUE
  /\ Quiet(c)
  /\ UNCHANGED popup
  /\ UNCHANGED <<audioGraphs>>

\* ------------------------------------------------ audio host (offscreen)
\* sendResponse: the answer travels back, unless the service worker that asked
\* is gone
Respond(r, v) ==
  IF r.pc = "dead" THEN Idle ELSE [r EXCEPT !.h = "resp", !.hres = v]
\* offscreen.js:21-23
FREQUENCIES == <<5, 10, 20, 40, 80, 160, 320, 640, 1280, 2560, 5120, 10240, 20480>>
\* the indices of the filters, 0 .. FREQUENCIES.length - 1
Bands == 0..(Len(FREQUENCIES) - 1)
\* offscreen.js:10-11, in hundredths (0.3 and 0.75)
DEFAULT_PEAKING_Q == 30
DEFAULT_SHELF_Q == 75
\* offscreen.js:146, in hundredths (1.0)
UnityGain == 100
PeakingQ(i) == DEFAULT_PEAKING_Q
\* offscreen.js:37-53: the Q createEqFilters gives filter i
DefaultQ(i) == IF i \in {2, 12} THEN DEFAULT_SHELF_Q ELSE DEFAULT_PEAKING_Q
\* offscreen.js:32-53: the type createEqFilters gives filter i
FilterType(i) ==
  IF i = 2 THEN "lowshelf" ELSE IF i = 12 THEN "highshelf" ELSE "peaking"
NeverExists(t) == FALSE
\* offscreen.js:101
GraphExists(t) == Has(audioGraphs, t)
\* offscreen.js:27-59, 136-166: the graph INIT_AUDIO stores.  src/out: the
\* source node / the gain node is connected; live: the capture stream's tracks
\* run; vol: gainNode.gain; type/gain/freq/q: the filters.  The graph's
\* AudioContext is open as long as the graph is in the map
NewGraph(t, streamId) ==
  [k |-> t, streamId |-> streamId, src |-> TRUE, out |-> TRUE, live |-> TRUE,
   vol |-> UnityGain,
   type |-> [i \in Bands |-> FilterType(i)],
   gain |-> [i \in Bands |-> 0],
   freq |-> [i \in Bands |-> FREQUENCIES[i + 1]],
   q |-> [i \in Bands |-> DefaultQ(i)]]

\* offscreen.js:98-121: INIT_AUDIO is delivered; runs up to `await resume()`
HostInit(c, throws) ==
  LET r == calls[c] IN
  /\ r.h = "sent" /\ r.msg = "INIT_AUDIO"
  /\ IF GraphExists(r.cur) THEN Step(c, Respond(r, "ok"))
     ELSE IF NoTabId(r.cur) \/ throws THEN Step(c, Respond(r, "fail"))
     ELSE Step(c, [r EXCEPT !.h = "resume", !.ctx = "open"])
  /\ Quiet(c)
  /\ UNCHANGED popup
  /\ UNCHANGED <<eqSessions, startingTabs, audioGraphs, offDoc>>

\* offscreen.js:121-132: resume() settles; getUserMedia is called
HostResumed(c, resumed) ==
  LET r == calls[c] IN
  /\ r.h = "resume"
  /\ IF resumed THEN Step(c, [r EXCEPT !.h = "capture"])
     ELSE Step(c, Respond(r, "fail"))
  /\ Quiet(c)
  /\ UNCHANGED popup
  /\ UNCHANGED <<eqSessions, startingTabs, audioGraphs, offDoc>>

\* offscreen.js:125-180: getUserMedia settles; the graph is built and stored
HostCaptured(c, granted) ==
  LET r == calls[c] IN
  /\ r.h = "capture"
  /\ IF granted
     THEN /\ audioGraphs' = MapSet(audioGraphs, NewGraph(r.cur, r.sid))
          /\ Step(c, Respond([r EXCEPT !.ctx = "none"], "ok"))
     ELSE /\ Step(c, Respond(r, "fail"))
          /\ UNCHANGED audioGraphs
  /\ Quiet(c)
  /\ UNCHANGED popup
  /\ UNCHANGED <<eqSessions, startingTabs, offDoc>>

\* where the teardown of STOP_EQ may throw (offscreen.js:230, 231, 236)
StopFaults == {"none", "source", "gain", "tracks"}
\* the faults drawn where the control plane runs as well
EarlyFaults == {"none", "source"}
TracksThenNodes(g, fault) ==
  [g EXCEPT !.live = @ /\ fault \in {"source"},
            !.src = @ /\ fault \in {"source", "gain"},
            !.out = @ /\ fault \in {"source", "gain", "tracks"}]
\* offscreen.js:229-237: sourceNode.disconnect(), gainNode.disconnect(), then
\* track.stop() for every track; a throw skips what follows
Disconnected(g, fault) ==
  [g EXCEPT !.src = @ /\ fault \in {"source"},
            !.out = @ /\ fault \in {"source", "gain"},
            !.live = @ /\ fault \in {"source", "gain", "tracks"}]
\* offscreen.js:219-241: STOP_EQ is delivered; runs up to `await close()`
HostStop(c, fault) ==
  LET r == calls[c] IN
  /\ r.h = "sent" /\ r.msg = "STOP_EQ"
  /\ IF ~GraphExists(r.cur)
     THEN /\ Step(c, Respond(r, "ok"))
          /\ UNCHANGED audioGraphs
     ELSE /\ audioGraphs' =
               MapSet(audioGraphs, Disconnected(Get(audioGraphs, r.cur), fault))
          /\ IF fault # "none" THEN Step(c, Respond(r, "fail"))
             ELSE Step(c, [r EXCEPT !.h = "close"])
  /\ Quiet(c)
  /\ UNCHANGED popup
  /\ UNCHANGED <<eqSessions, startingTabs, offDoc>>

\* offscreen.js:241-255: close() settles; the entry is removed on success
HostClosed(c, closed) ==
  LET r == calls[c] IN
  /\ r.h = "close"
  /\ IF closed
     THEN /\ audioGraphs' = MapDelete(audioGraphs, r.cur)
          /\ Step(c, Respond(r, "ok"))
     ELSE /\ Step(c, Respond(r, "fail"))
          /\ UNCHANGED audioGraphs
  /\ Quiet(c)
  /\ UNCHANGED popup
  /\ UNCHANGED <<eqSessions, startingTabs, offDoc>>

\* offscreen.js:265-269
HostListTabs(c) ==
  LET r == calls[c] IN
  /\ r.h = "sent" /\ r.msg = "GET_ACTIVE_TABS"
  /\ Step(c, Respond([r EXCEPT !.snap = Keys(audioGraphs)], "ok"))
  /\ Quiet(c)
  /\ UNCHANGED popup
  /\ UNCHANGED <<eqSessions, startingTabs, audioGraphs, offDoc>>

\* offscreen.js:276-283
HostListStreamIds(c) ==
  LET r == calls[c] IN
  /\ r.h = "sent" /\ r.msg = "GET_STREAM_IDS"
  /\ Step(c, Respond([r EXCEPT !.ids = audioGraphs], "ok"))
  /\ Quiet(c)
  /\ UNCHANGED popup
  /\ UNCHANGED <<eqSessions, startingTabs, audioGraphs, offDoc>>

Ignored(r) == Respond(r, "ok")
\* offscreen.js:298-300, 347-349, 390-392: no graph for the tab
NotFound(r) == Respond(r, "fail")
Replaced(cur, m, i) == [j \in Bands |-> IF j \in DOMAIN m THEN m[j] ELSE 0]
\* offscreen.js:306-328: one pass of the loop body for filter i; the maps of
\* the command are consulted with `i in map`, in the order frequency, Q, gain.
\* A value that is not a finite number makes setValueAtTime throw
Assigned(cur, m, i) == IF i \in DOMAIN m THEN [cur EXCEPT ![i] = m[i]] ELSE cur
Throws(cmd, param, i) == <<param, i>> \in cmd.nan
RECURSIVE UpdateFrom(_, _, _)
\* offscreen.js:306-329: the loop from filter i on; ok is FALSE when a
\* setValueAtTime threw, with the assignments made before it kept
UpdateFrom(g, cmd, i) ==
  IF i = Len(FREQUENCIES) THEN [g |-> g, ok |-> TRUE]
  ELSE IF i \in DOMAIN cmd.freq /\ Throws(cmd, "freq", i)
  THEN [g |-> g, ok |-> FALSE]
  ELSE LET g1 == [g EXCEPT !.freq = Assigned(@, cmd.freq, i)] IN
       IF i \in DOMAIN cmd.q /\ Throws(cmd, "q", i)
       THEN [g |-> g1, ok |-> FALSE]
       ELSE LET g2 == [g1 EXCEPT !.q = Assigned(@, cmd.q, i)] IN
            IF i \in DOMAIN cmd.gain /\ Throws(cmd, "gain", i)
            THEN [g |-> g2, ok |-> FALSE]
            ELSE UpdateFrom([g2 EXCEPT !.gain = Assigned(@, cmd.gain, i)],
                            cmd, i + 1)
\* offscreen.js:295-337
HostUpdate(c) ==
  LET r == calls[c] IN
  /\ r.h = "sent" /\ r.msg = "UPDATE_EQ_NODES"
  /\ IF ~GraphExists(r.cur)
     THEN /\ Step(c, NotFound(r))
          /\ UNCHANGED audioGraphs
     ELSE LET u == UpdateFrom(Get(audioGraphs, r.cur), r.arg, 0) IN
          /\ audioGraphs' = MapSet(audioGraphs, u.g)
          /\ Step(c, Respond(r, IF u.ok THEN "ok" ELSE "fail"))
  /\ Quiet(c)
  /\ UNCHANGED popup
  /\ UNCHANGED <<eqSessions, startingTabs, offDoc>>
NodeValuesWithEveryGain(g) == [gain |-> g.gain, freq |-> g.freq, q |-> g.q]
\* offscreen.js:352-367: gains are reported only where they are not 0
NodeValues(g) ==
  [gain |-> [i \in {j \in Bands : g.gain[j] # 0} |-> g.gain[i]],
   freq |-> g.freq, q |-> g.q]
\* offscreen.js:344-380
HostGetNodes(c) ==
  LET r == calls[c] IN
  /\ r.h = "sent" /\ r.msg = "GET_EQ_NODES"
  /\ IF ~GraphExists(r.cur) THEN Step(c, NotFound(r))
     ELSE Step(c, Respond([r EXCEPT !.reply = NodeValues(Get(audioGraphs, r.cur))],
                          "ok"))
  /\ Quiet(c)
  /\ UNCHANGED popup
  /\ UNCHANGED <<eqSessions, startingTabs, audioGraphs, offDoc>>
\* offscreen.js:387-412: the analyser's bins are read, nothing is written
HostSpectrum(c) ==
  LET r == calls[c] IN
  /\ r.h = "sent" /\ r.msg = "GET_SPECTRUM_DATA"
  /\ IF ~GraphExists(r.cur) THEN Step(c, NotFound(r))
     ELSE Step(c, Respond([r EXCEPT !.reply = "spectrum"], "ok"))
  /\ Quiet(c)
  /\ UNCHANGED popup
  /\ UNCHANGED <<eqSessions, startingTabs, audioGraphs, offDoc>>

\* the handler's async function threw outside any try block: sendResponse is
\* never called (offscreen.js:90, 420)
Unanswered(r) == IF r.pc = "dead" THEN Idle ELSE [r EXCEPT !.h = "hung"]
VolumeWithFilters(g, value) ==
  [g EXCEPT !.vol = value, !.gain = [i \in Bands |-> 0]]
\* offscreen.js:192-195
VolumeSet(g, value) == [g EXCEPT !.vol = value]
\* offscreen.js:188-199: SET_VOLUME; setValueAtTime throws on a value that is
\* not a finite number, and nothing catches it
HostSetVolume(c) ==
  LET r == calls[c] IN
  /\ r.h = "sent" /\ r.msg = "SET_VOLUME"
  /\ IF ~GraphExists(r.cur)
     THEN /\ Step(c, Respond(r, "ok"))
          /\ UNCHANGED audioGraphs
     ELSE IF ~r.arg.finite
     THEN /\ Step(c, Unanswered(r))
          /\ UNCHANGED audioGraphs
     ELSE /\ audioGraphs' =
               MapSet(audioGraphs, VolumeSet(Get(audioGraphs, r.cur), r.arg.value))
          /\ Step(c, Respond(r, "ok"))
  /\ Quiet(c)
  /\ UNCHANGED popup
  /\ UNCHANGED <<eqSessions, startingTabs, offDoc>>
\* offscreen.js:206-207: graph?.gainNode?.gain.value ?? 1.0
VolumeOf(t) == IF GraphExists(t) THEN Get(audioGraphs, t).vol ELSE UnityGain
\* offscreen.js:205-210
HostGetVolume(c) ==
  LET r == calls[c] IN
  /\ r.h = "sent" /\ r.msg = "GET_VOLUME"
  /\ Step(c, Respond([r EXCEPT !.reply = VolumeOf(r.cur)], "ok"))
  /\ Quiet(c)
  /\ UNCHANGED popup
  /\ UNCHANGED <<eqSessions, startingTabs, audioGraphs, offDoc>>

\* offscreen.js:89-91: a message some extension page sent reaches the listener
HostDeliver(c, type, t) ==
  /\ Free(c)
  /\ type = "INIT_AUDIO" => CanGrant
  /\ Step(c, [SendTo(Idle, type, t,
                     IF type = "INIT_AUDIO" THEN FreshHandle ELSE 0, TRUE)
                EXCEPT !.op = "host", !.pc = "wait"])
  /\ Quiet(c)
  /\ UNCHANGED popup
  /\ UNCHANGED <<eqSessions, startingTabs, audioGraphs, offDoc>>
\* offscreen.js:303: an UPDATE_EQ_NODES message with its three maps
HostDeliverUpdate(c, t, cmd) ==
  /\ Free(c)
  /\ Step(c, [SendTo(Idle, "UPDATE_EQ_NODES", t, 0, TRUE)
                EXCEPT !.op = "host", !.pc = "wait", !.arg = cmd])
  /\ Quiet(c)
  /\ UNCHANGED popup
  /\ UNCHANGED <<eqSessions, startingTabs, audioGraphs, offDoc>>
\* offscreen.js:193: a SET_VOLUME message with its value
HostDeliverVolume(c, t, v) ==
  /\ Free(c)
  /\ Step(c, [SendTo(Idle, "SET_VOLUME", t, 0, TRUE)
                EXCEPT !.op = "host", !.pc = "wait", !.arg = v])
  /\ Quiet(c)
  /\ UNCHANGED popup
  /\ UNCHANGED <<eqSessions, startingTabs, audioGraphs, offDoc>>
\* the sender has the response its sendResponse call carried
HostAnswered(c) ==
  /\ calls[c].op = "host" /\ calls[c].h = "resp"
  /\ Step(c, Idle)
  /\ Quiet(c)
  /\ UNCHANGED popup
  /\ UNCHANGED <<eqSessions, startingTabs, audioGraphs, offDoc>>

\* ------------------------------------------------------- environment
\* background.js:310: the offscreen document is lost with all its graphs; the
\* ports of the requests it had not answered close (lastError)
Orphaned(r) ==
  IF r.h \in {"sent", "resume", "capture", "close", "hung"}
  THEN Respond(r, "err") ELSE r
OffscreenLost ==
  /\ offDoc
  /\ offDoc' = FALSE
  /\ audioGraphs' = <<>>
  /\ calls' = [s \in Slots |-> Orphaned(calls[s])]
  /\ undisturbed' = FALSE
  /\ UNCHANGED popup
  /\ UNCHANGED <<eqSessions, startingTabs>>

\* a request whose handler died unanswered: Chrome closes the port when the
\* response callback is collected, and the sender sees lastError
\* (background.js:98-100)
PortDropped(c) ==
  /\ calls[c].h = "hung"
  /\ Step(c, Respond(calls[c], "err"))
  /\ Quiet(c)
  /\ UNCHANGED popup
  /\ UNCHANGED <<eqSessions, startingTabs, audioGraphs, offDoc>>

\* background.js:20-25: the service worker is evicted and loaded again; its
\* memory and its running handlers are gone, the offscreen document lives on
Killed(r) ==
  IF r.h \in {"sent", "resume", "capture", "close"} THEN [r EXCEPT !.pc = "dead"]
  ELSE Idle
WorkerRestart ==
  /\ eqSessions' = <<>>
  /\ startingTabs' = {}
  /\ calls' = [s \in Slots |-> IF s = 0 THEN Startup ELSE Killed(calls[s])]
  /\ undisturbed' = TRUE
  /\ UNCHANGED popup
  /\ UNCHANGED <<audioGraphs, offDoc>>

\* the caller has its answer (sendResponse): the invocation is over
Answered(c) ==
  /\ calls[c].pc = "done"
  /\ Step(c, Idle)
  /\ undisturbed' = FALSE
  /\ UNCHANGED popup
  /\ UNCHANGED <<eqSessions, startingTabs, audioGraphs, offDoc>>

\* --------------------------------------------------------------- popup
\* The popup computes with JavaScript numbers.  The model computes with exact
\* rationals [n, d] in lowest terms, d > 0; d = 0 is a result that is not
\* finite (Infinity, -Infinity or NaN, by the sign of n)
RECURSIVE GCD(_, _)
GCD(a, b) == IF b = 0 THEN a ELSE GCD(b, a % b)
Abs(n) == IF n < 0 THEN -n ELSE n
Ratio(n, d) ==
  IF d = 0 THEN [n |-> IF n > 0 THEN 1 ELSE IF n < 0 THEN -1 ELSE 0, d |-> 0]
  ELSE LET g == GCD(Abs(n), Abs(d)) IN
       [n |-> (IF d < 0 THEN -n ELSE n) \div g, d |-> Abs(d) \div g]
Whole(n) == Ratio(n, 1)
Finite(a) == a.d # 0
\* a * b, a - b, a / b
Reduced(n, d) == IF n = 0 \/ d = 0 THEN 1 ELSE GCD(Abs(n), Abs(d))
Times(a, b) ==
  LET g == Reduced(a.n, b.d)
      h == Reduced(b.n, a.d)
  IN Ratio((a.n \div g) * (b.n \div h), (a.d \div h) * (b.d \div g))
Minus(a, b) == Ratio(a.n * b.d - b.n * a.d, a.d * b.d)
Over(a, b) ==
  LET g == Reduced(a.n, b.n)
      h == Reduced(b.d, a.d)
  IN Ratio((a.n \div g) * (b.d \div h), (a.d \div h) * (b.n \div g))
\* -a
Negative(a) == [a EXCEPT !.n = -a.n]
\* Math.abs, a < b, Math.max, Math.min
MathAbs(a) == [a EXCEPT !.n = Abs(a.n)]
LessThan(a, b) == a.n * b.d < b.n * a.d
MathMax(a, b) == IF LessThan(a, b) THEN b ELSE a
MathMin(a, b) == IF LessThan(b, a) THEN b ELSE a
\* m[i] ?? v
Coalesce(m, i, v) == IF i \in DOMAIN m THEN m[i] ELSE v
\* Controls.jsx:97-98
SVG_HEIGHT == 500
CENTER_Y == 250

CoupledEverywhere(index, baseQ, gaindB) ==
  Times(baseQ, Minus(Ratio(3, 2), Over(MathAbs(gaindB), Whole(30))))
\* Popup.jsx:538-546
baseQToQ(index, baseQ, gaindB) ==
  LET isShelf == index = 2 \/ index = 12 IN
  IF isShelf THEN baseQ
  ELSE LET multiplier == Minus(Ratio(3, 2), Over(MathAbs(gaindB), Whole(30))) IN
       Times(baseQ, multiplier)
QTakenForBaseQ(index, q, gaindB) == q
Undivided(index, q, gaindB) ==
  LET isShelf == index = 2 \/ index = 12 IN
  IF isShelf THEN q
  ELSE Over(q, Minus(Ratio(3, 2), Over(MathAbs(gaindB), Whole(30))))
\* Popup.jsx:551-559
qToBaseQ(index, q, gaindB) ==
  LET isShelf == index = 2 \/ index = 12 IN
  IF isShelf THEN q
  ELSE LET divisor == Minus(Ratio(3, 2), Over(MathAbs(gaindB), Whole(30))) IN
       IF divisor # Whole(0) THEN Over(q, divisor) ELSE Ratio(3, 10)
\* Popup.jsx:151-157: the Q ensureBackendReady recalculates for filter i
RecalculatedQ(i, baseQValues, gainValues) ==
  LET isShelf == i = 2 \/ i = 12
      baseQ == Coalesce(baseQValues, i, IF isShelf THEN Ratio(3, 4) ELSE Ratio(3, 10))
      gain == Coalesce(gainValues, i, Whole(0))
  IN IF isShelf THEN baseQ
     ELSE Times(baseQ, Minus(Ratio(3, 2), Over(MathAbs(gain), Whole(30))))
\* Controls.jsx:242-244: the Q of the node a normal drag moves
DraggedQ(draggingNode, baseQValues, gaindB) ==
  LET isShelf == draggingNode = 2 \/ draggingNode = 12
      baseQ == Coalesce(baseQValues, draggingNode,
                        IF isShelf THEN Ratio(3, 4) ELSE Ratio(3, 10))
  IN IF isShelf THEN baseQ
     ELSE Times(baseQ, Minus(Ratio(3, 2), Over(MathAbs(gaindB), Whole(30))))
\* Controls.jsx:123-134, graphs.js (part_005):576-587: the gain the response
\* curve of a node is drawn for, from the node's position kept inside the
\* view box
CurveGain(positions, index) ==
  LET nodeY == Minus(Whole(CENTER_Y), Negative(Coalesce(positions, index, Whole(0))))
      cy == MathMax(Whole(3), MathMin(Whole(SVG_HEIGHT - 3), nodeY))
      gainOffset == Minus(cy, Whole(CENTER_Y))
  IN Times(Negative(Over(gainOffset, Whole(SVG_HEIGHT))), Whole(60))
\* graphs.js (part_005):595-603: the Q generateBellCurve draws node index with
CurveQ(index, baseQValues, gainDb) ==
  LET isShelf == index = 2 \/ index = 12
      baseQ == Coalesce(baseQValues, index,
                        IF isShelf THEN Ratio(3, 4) ELSE Ratio(3, 10))
  IN IF isShelf THEN baseQ
     ELSE Times(baseQ, Minus(Ratio(3, 2), Over(MathAbs(gainDb), Whole(30))))

\* a + b, over the least common denominator
Plus(a, b) ==
  LET d == (a.d \div GCD(a.d, b.d)) * b.d IN
  Ratio(a.n * (d \div a.d) + b.n * (d \div b.d), d)
\* graphs.js (part_005):594: Math.pow(10, gainDb / 40), for the gains the
\* curve is drawn for here, as the nearest fraction with a small denominator
Amplitude(gainDb) ==
  CASE gainDb = Ratio(144, 5) -> Ratio(21, 4)
    [] gainDb = Whole(15) -> Ratio(19, 8)
    [] gainDb = Whole(6) -> Ratio(17, 12)
    [] gainDb = Whole(-6) -> Ratio(12, 17)
    [] gainDb = Whole(-15) -> Ratio(8, 19)
    [] gainDb = Ratio(-144, 5) -> Ratio(4, 21)
    [] OTHER -> Whole(1)
\* graphs.js (part_005):618, 627: Math.sqrt(A) for those amplitudes, likewise
SquareRoot(A) ==
  CASE A = Ratio(21, 4) -> Ratio(55, 24)
    [] A = Ratio(19, 8) -> Ratio(37, 24)
    [] A = Ratio(17, 12) -> Ratio(25, 21)
    [] A = Ratio(12, 17) -> Ratio(21, 25)
    [] A = Ratio(8, 19) -> Ratio(24, 37)
    [] A = Ratio(4, 21) -> Ratio(24, 55)
    [] OTHER -> Whole(1)
\* the denominator built like the numerator: a0 = 1 + alpha * A, a2 = 1 - alpha * A
NumeratorTwice(alpha, A, cosW0) ==
  [b0 |-> Plus(Whole(1), Times(alpha, A)), b1 |-> Times(Whole(-2), cosW0),
   b2 |-> Plus(Whole(1), Negative(Times(alpha, A))),
   a0 |-> Plus(Whole(1), Times(alpha, A)), a1 |-> Times(Whole(-2), cosW0),
   a2 |-> Plus(Whole(1), Negative(Times(alpha, A)))]
\* graphs.js (part_005):636-643
PeakingCoefficients(alpha, A, cosW0) ==
  [b0 |-> Plus(Whole(1), Times(alpha, A)), b1 |-> Times(Whole(-2), cosW0),
   b2 |-> Plus(Whole(1), Negative(Times(alpha, A))),
   a0 |-> Plus(Whole(1), Over(alpha, A)), a1 |-> Times(Whole(-2), cosW0),
   a2 |-> Plus(Whole(1), Negative(Over(alpha, A)))]
\* graphs.js (part_005):614-634
ShelfCoefficients(isLowShelf, alpha, A, cosW0) ==
  LET sqrtA == SquareRoot(A)
      up == Plus(A, Whole(1))
      dn == Plus(A, Whole(-1))
      slope == Times(Times(Whole(2), sqrtA), alpha)
      lo == Plus(up, Negative(Times(dn, cosW0)))
      hi == Plus(up, Times(dn, cosW0))
  IN IF isLowShelf
     THEN [b0 |-> Times(A, Plus(lo, slope)),
           b1 |-> Times(Times(Whole(2), A), Plus(dn, Negative(Times(up, cosW0)))),
           b2 |-> Times(A, Plus(lo, Negative(slope))),
           a0 |-> Plus(hi, slope),
           a1 |-> Times(Whole(-2), Plus(dn, Times(up, cosW0))),
           a2 |-> Plus(hi, Negative(slope))]
     ELSE [b0 |-> Times(A, Plus(hi, slope)),
           b1 |-> Times(Times(Whole(-2), A), Plus(dn, Times(up, cosW0))),
           b2 |-> Times(A, Plus(hi, Negative(slope))),
           a0 |-> Plus(lo, slope),
           a1 |-> Times(Whole(2), Plus(dn, Negative(Times(up, cosW0)))),
           a2 |-> Plus(lo, Negative(slope))]
\* graphs.js (part_005):661-677: the loop body at the angle w of one frequency.
\* The result is 10^(magnitudeDb / 10), the square of
\* Math.max(magnitude, 1e-10): floored says that the maximum is 1e-10, which
\* no fraction the model holds is below unless it is 0
MagnitudeSquared(k, sinW, cosW) ==
  LET sin2W == Times(Whole(2), Times(sinW, cosW))
      cos2W == Plus(Times(cosW, cosW), Negative(Times(sinW, sinW)))
      numReal == Plus(k.b0, Plus(Times(k.b1, cosW), Times(k.b2, cos2W)))
      numImag == Plus(Times(k.b1, sinW), Times(k.b2, sin2W))
      denReal == Plus(k.a0, Plus(Times(k.a1, cosW), Times(k.a2, cos2W)))
      denImag == Plus(Times(k.a1, sinW), Times(k.a2, sin2W))
      numMag2 == Plus(Times(numReal, numReal), Times(numImag, numImag))
      denMag2 == Plus(Times(denReal, denReal), Times(denImag, denImag))
      magnitude2 == Over(numMag2, denMag2)
  IN [value |-> magnitude2, floored |-> magnitude2 = Whole(0)]
\* graphs.js (part_005):560-699: the curve of node index; w0 holds Math.sin and
\* Math.cos of 2 * PI * centerFreq / sampleRate.  Of the path, the point at
\* the node's own frequency is kept
generateBellCurve(index, nodePositions, nodeBaseQValues, w0) ==
  LET gainDb == CurveGain(nodePositions, index)
      gainOffset == Times(Negative(Over(gainDb, Whole(60))), Whole(SVG_HEIGHT))
      A == Amplitude(gainDb)
      isShelf == index = 2 \/ index = 12
      Q == CurveQ(index, nodeBaseQValues, gainDb)
      alpha == Over(w0.sin, Times(Whole(2), Q))
      k == IF isShelf THEN ShelfCoefficients(index = 2, alpha, A, w0.cos)
           ELSE PeakingCoefficients(alpha, A, w0.cos)
  IN IF ~LessThan(Whole(5), MathAbs(gainOffset))
     THEN [index |-> index, drawn |-> FALSE, gainDb |-> gainDb, power |-> "none"]
     ELSE [index |-> index, drawn |-> TRUE, gainDb |-> gainDb,
           power |-> MagnitudeSquared(k, w0.sin, w0.cos)]

\* Popup.jsx:174-213
buildCompleteEqValues(overrideGainValues, overrideFreqValues, overrideBaseQValues) ==
  LET completeGainValues == overrideGainValues @@ [i \in Bands |-> Whole(0)]
      completeFreqValues ==
        overrideFreqValues @@ [i \in Bands |-> Whole(FREQUENCIES[i + 1])]
      completeBaseQValues ==
        overrideBaseQValues @@
          [i \in Bands |-> IF i = 2 \/ i = 12 THEN Ratio(3, 4) ELSE Ratio(3, 10)]
  IN [gain |-> completeGainValues, freq |-> completeFreqValues,
      q |-> [i \in Bands |->
               baseQToQ(i, completeBaseQValues[i], completeGainValues[i])],
      baseQ |-> completeBaseQValues]
\* Popup.jsx:593-636: the y offset of every node that has a frequency
calculateNodePositions(nodeFrequencyValues, nodeGainValues) ==
  [index \in DOMAIN nodeFrequencyValues |->
     LET gainDb == Coalesce(nodeGainValues, index, Whole(0)) IN
     Times(Negative(Over(gainDb, Whole(60))), Whole(SVG_HEIGHT))]
\* Popup.jsx:563-589
initializeEqState(p, gainValues, freqValues, qValues) ==
  [p EXCEPT !.pos = calculateNodePositions(freqValues, gainValues),
            !.gain = gainValues, !.freq = freqValues, !.q = qValues,
            !.baseQ = [index \in DOMAIN qValues |->
                         qToBaseQ(index, qValues[index],
                                  Coalesce(gainValues, index, Whole(0)))]]
\* Popup.jsx:105-116
saveEqStateToLocalStorage(positions, gains, freqs, qs, baseQs) ==
  <<[pos |-> positions, gain |-> gains, freq |-> freqs, q |-> qs,
     baseQ |-> baseQs]>>
\* Popup.jsx:401-409, 449-457, 475-497, 525-533: the command goes out when the
\* handler's render knew a tab
UpdateEqNodes(p, currentTabId, gainValues, freqValues, qValues) ==
  IF currentTabId # 0
  THEN [p EXCEPT !.sent = <<[tab |-> currentTabId, gain |-> gainValues,
                             freq |-> freqValues, q |-> qValues]>>]
  ELSE p
\* the popup takes another input of the user, and has handled one more
Listening == popup.events < MaxEvents
Counted(p) == [p EXCEPT !.events = @ + 1]
\* the popup's handlers touch neither the worker nor the offscreen document
PopupOnly ==
  UNCHANGED <<eqSessions, startingTabs, audioGraphs, offDoc, calls, undisturbed>>
\* Popup.jsx:413-458: savedPresets.find takes the first preset of the name
LoadPreset(k) ==
  /\ Listening
  /\ k \in 1..Len(popup.presets)
  /\ \A j \in 1..(k - 1) : popup.presets[j].name # popup.presets[k].name
  /\ LET preset == popup.presets[k]
         c == buildCompleteEqValues(preset.gain, preset.freq, preset.baseQ)
         p == initializeEqState(
                [popup EXCEPT !.selected = preset.name, !.name = preset.name],
                c.gain, c.freq, c.q)
         positions == calculateNodePositions(c.freq, c.gain)
     IN popup' = Counted(UpdateEqNodes(
          [p EXCEPT !.saved = saveEqStateToLocalStorage(positions, c.gain, c.freq,
                                                        c.q, c.baseQ)],
          popup.tab, c.gain, c.freq, c.q))
  /\ PopupOnly
\* Popup.jsx:371-410
BassBoost ==
  /\ Listening
  /\ LET c == buildCompleteEqValues(2 :> Whole(5), 2 :> Whole(120), 2 :> Ratio(3, 4))
         p == initializeEqState(popup, c.gain, c.freq, c.q)
         positions == calculateNodePositions(c.freq, c.gain)
     IN popup' = Counted(UpdateEqNodes(
          [p EXCEPT !.saved = saveEqStateToLocalStorage(positions, c.gain, c.freq,
                                                        c.q, c.baseQ)],
          popup.tab, c.gain, c.freq, c.q))
  /\ PopupOnly
\* Popup.jsx:461-498, of a render that knew currentTabId
handleResetFilters(p, currentTabId) ==
  UpdateEqNodes(
    [p EXCEPT !.pos = NoMap, !.gain = NoMap, !.freq = NoMap, !.q = NoMap,
              !.baseQ = NoMap, !.selected = <<>>, !.name = <<>>, !.saved = <<>>],
    currentTabId,
    [i \in Bands |-> Whole(0)],
    [i \in Bands |-> Whole(FREQUENCIES[i + 1])],
    [i \in Bands |-> IF i = 2 \/ i = 12 THEN Ratio(3, 4) ELSE Ratio(3, 10)])
\* Popup.jsx:996: the Reset Filters button
ResetFilters ==
  /\ Listening
  /\ popup' = Counted(handleResetFilters(popup, popup.tab))
  /\ PopupOnly
\* Popup.jsx:955: the preset name input changes
PresetNameTyped(text) ==
  /\ Listening
  /\ popup' = Counted([popup EXCEPT !.name = text])
  /\ PopupOnly
\* the code units String.prototype.trim takes off: the white space and the
\* line terminators of ECMAScript
WhiteSpace ==
  {9, 10, 11, 12, 13, 32, 160, 5760, 8232, 8233, 8239, 8287, 12288, 65279}
    \cup (8192..8202)
\* Popup.jsx:325: !presetName.trim(), nothing of the name is left
Blank(text) == \A i \in 1..Len(text) : text[i] \in WhiteSpace
\* Popup.jsx:324-346: eqPresets in localStorage and savedPresets get the same list
SavePreset ==
  /\ Listening
  /\ ~Blank(popup.name)
  /\ LET newPreset == [name |-> popup.name, gain |-> popup.gain,
                       freq |-> popup.freq, baseQ |-> popup.baseQ]
         updatedPresets ==
           Append(SelectSeq(popup.presets, LAMBDA p : p.name # popup.name), newPreset)
     IN popup' = Counted([popup EXCEPT !.presets = updatedPresets, !.name = <<>>])
  /\ PopupOnly
\* Popup.jsx:349-368
DeletePreset ==
  /\ Listening
  /\ popup.selected # <<>>
  /\ LET updatedPresets ==
           SelectSeq(popup.presets, LAMBDA p : p.name # popup.selected)
     IN popup' = Counted(handleResetFilters(
          [popup EXCEPT !.presets = updatedPresets], popup.tab))
  /\ PopupOnly
\* Popup.jsx:501-534, called by the handleMouseMove of the render that knew
\* currentTabId
handleEqNodesChange(p, currentTabId, newPositions, newGainValues, newFrequencyValues, newQValues, newBaseQValues) ==
  UpdateEqNodes(
    [p EXCEPT !.pos = newPositions, !.gain = newGainValues,
              !.freq = newFrequencyValues, !.q = newQValues,
              !.baseQ = newBaseQValues,
              !.saved = saveEqStateToLocalStorage(newPositions, newGainValues,
                          newFrequencyValues, newQValues, newBaseQValues)],
    currentTabId, newGainValues, newFrequencyValues, newQValues)
\* Controls.jsx:139-155, 296-306: a mouse button goes down on node index.
\* When draggingNode changes, the effect registers the handleMouseMove of the
\* new render, which keeps that render's props and isShiftDrag until
\* draggingNode changes again; a mousedown on the node already dragged leaves
\* the listeners there are
NodeMouseDown(index, shiftKey) ==
  /\ Listening
  /\ popup.activeTab = "Controls"
  /\ popup' = Counted(
       IF popup.drag # <<>> /\ popup.drag[1].node = index THEN popup
       ELSE [popup EXCEPT !.drag =
               <<[node |-> index, shift |-> shiftKey, tab |-> popup.tab,
                  pos |-> popup.pos, gain |-> popup.gain, freq |-> popup.freq,
                  q |-> popup.q, baseQ |-> popup.baseQ]>>])
  /\ PopupOnly
\* Controls.jsx:185-198, 229-270: a mouse move of a normal drag of draggingNode.
\* mouseY is in view box units; found is what getFrequencyFromXPos returns for
\* the mouse's x (Controls.jsx:161-177), a value between the first and the
\* last entry of the frequency table
Drag(draggingNode, mouseY, found) ==
  /\ Listening
  /\ popup.drag # <<>>
  /\ popup.drag[1].node = draggingNode /\ ~popup.drag[1].shift
  /\ LET props == popup.drag[1]
         offsetY == Minus(Whole(mouseY), Whole(CENTER_Y))
         frequency == MathMax(Whole(1), MathMin(Whole(21500), Whole(found)))
         gaindB == MathMax(Whole(-30), MathMin(Whole(30),
                     Times(Negative(Over(offsetY, Whole(SVG_HEIGHT))), Whole(60))))
         Q == DraggedQ(draggingNode, props.baseQ, gaindB)
     IN popup' = Counted(handleEqNodesChange(
          popup, props.tab,
          (draggingNode :> offsetY) @@ props.pos,
          (draggingNode :> gaindB) @@ props.gain,
          (draggingNode :> frequency) @@ props.freq,
          (draggingNode :> Q) @@ props.q,
          props.baseQ))
  /\ PopupOnly
\* Controls.jsx:200-227: a mouse move of a shift+drag.  raw is Math.exp(logQ),
\* 0.3 times a power of 20 that the distance from the drag's start decides
ShiftDrag(draggingNode, raw) ==
  /\ Listening
  /\ popup.drag # <<>>
  /\ popup.drag[1].node = draggingNode /\ popup.drag[1].shift
  /\ LET props == popup.drag[1]
         baseQ == MathMax(Ratio(1, 10), MathMin(Whole(2), raw))
     IN popup' = Counted(handleEqNodesChange(
          popup, props.tab,
          props.pos, props.gain, props.freq, props.q,
          (draggingNode :> baseQ) @@ props.baseQ))
  /\ PopupOnly
\* Controls.jsx:286-290, 302-305: the button is released, the listeners go
MouseUp ==
  /\ Listening
  /\ popup.drag # <<>>
  /\ popup' = Counted([popup EXCEPT !.drag = <<>>])
  /\ PopupOnly
\* Popup.jsx:216-223, 136-145: lastEnsureTimeRef is 0 until a call got
\* through; elapsed tells whether a second has passed since that call.  A call
\* that gets through starts an ensureBackendReady, which waits for PING_BG and
\* REINIT_MISSING_AUDIO with the values of the render it was called in
throttledEnsureBackend(p, elapsed) ==
  IF p.lastEnsure # 0 /\ ~elapsed THEN p
  ELSE [p EXCEPT !.lastEnsure = 1,
                 !.ensure = Append(@, [tab |-> p.tab, gain |-> p.gain,
                                       freq |-> p.freq, baseQ |-> p.baseQ])]
\* Popup.jsx:226-257: the mouse goes down on the volume slider of Controls
VolumeStart(elapsed) ==
  /\ Listening
  /\ popup.activeTab = "Controls"
  /\ popup' = Counted(throttledEnsureBackend(popup, elapsed))
  /\ PopupOnly
\* Popup.jsx:845-901: a tab button is clicked.  Controls is rendered on its own
\* tab only (917); when it unmounts its draggingNode and its listeners go
TabButton(name, elapsed) ==
  /\ Listening
  /\ popup' = Counted(
       [throttledEnsureBackend(popup, elapsed) EXCEPT
          !.activeTab = name,
          !.drag = IF name = "Controls" THEN @ ELSE <<>>])
  /\ PopupOnly
\* s without its k-th entry
Without(s, k) == SubSeq(s, 1, k - 1) \o SubSeq(s, k + 1, Len(s))
\* Popup.jsx:145-168: REINIT_MISSING_AUDIO is answered to the k-th call
\* waiting; the filters are sent the values the call closed over, with every
\* Q recalculated
EnsureBackendReady(k) ==
  /\ k \in 1..Len(popup.ensure)
  /\ LET e == popup.ensure[k] IN
     popup' =
       IF e.tab # 0 /\ DOMAIN e.gain # {}
       THEN [popup EXCEPT
               !.ensure = Without(@, k),
               !.sent = <<[tab |-> e.tab, gain |-> e.gain, freq |-> e.freq,
                           q |-> [i \in Bands |->
                                    RecalculatedQ(i, e.baseQ, e.gain)]]>>]
       ELSE [popup EXCEPT !.ensure = Without(@, k)]
  /\ PopupOnly
\* Popup.jsx:260-299, 1059: the main button is clicked.  handleStopEqAndReset
\* or handleStartEqAndReset (as eqActive says) sends STOP_EQ or START_EQ with
\* the currentTabId of its render and waits for the answer
MainButton ==
  /\ Listening
  /\ popup' = Counted([popup EXCEPT !.main = Append(@, [tab |-> popup.tab])])
  /\ PopupOnly
\* Popup.jsx:260-299: the k-th STOP_EQ or START_EQ waiting is answered.  stopEq
\* and startEq empty the maps when the answer is ok; the handleResetFilters
\* of the render clicked in runs whatever the answer
MainAnswered(k, ok) ==
  /\ k \in 1..Len(popup.main)
  /\ LET res == IF ok
                THEN [popup EXCEPT !.pos = NoMap, !.gain = NoMap, !.freq = NoMap,
                                   !.q = NoMap, !.baseQ = NoMap]
                ELSE popup
     IN popup' = handleResetFilters([res EXCEPT !.main = Without(@, k)],
                                    popup.main[k].tab)
  /\ PopupOnly
\* Popup.jsx:642-651: chrome.tabs.query answers the mount effect's boot().
\* The ensureBackendReady boot() then awaits (666) is the first render's, with
\* no tab and no gains: it sends no UPDATE_EQ_NODES
BootTab(t) ==
  /\ popup.boot = "query"
  /\ popup' = [popup EXCEPT !.tab = t, !.boot = IF t = 0 THEN "done" ELSE "nodes"]
  /\ PopupOnly
\* the reply to GET_EQ_NODES as JavaScript numbers (part_000:352-367)
NodeReply(v) ==
  [ok |-> TRUE,
   gain |-> [i \in DOMAIN v.gain |-> Whole(v.gain[i])],
   freq |-> [i \in DOMAIN v.freq |-> Whole(v.freq[i])],
   q |-> [i \in DOMAIN v.q |-> Ratio(v.q[i], 100)]]
\* Popup.jsx:693-758: GET_EQ_NODES is answered.  The host's values are taken
\* when it reports a gain, else what localStorage holds is restored and sent
BootNodes(eqNodeStatus) ==
  /\ popup.boot = "nodes"
  /\ popup' =
       IF eqNodeStatus.ok /\ DOMAIN eqNodeStatus.gain # {}
       THEN [initializeEqState(popup, eqNodeStatus.gain, eqNodeStatus.freq,
                               eqNodeStatus.q) EXCEPT !.boot = "done"]
       ELSE IF popup.saved = <<>> THEN [popup EXCEPT !.boot = "done"]
       ELSE LET savedState == popup.saved[1]
                p == [popup EXCEPT !.pos = savedState.pos, !.gain = savedState.gain,
                                   !.freq = savedState.freq, !.q = savedState.q,
                                   !.baseQ = savedState.baseQ, !.boot = "done"]
            IN IF DOMAIN savedState.gain # {}
               THEN UpdateEqNodes(p, popup.tab, savedState.gain, savedState.freq,
                                  savedState.q)
               ELSE p
  /\ PopupOnly
\* Controls.jsx:418-437: the render draws the curve of node index
RenderCurve(index) ==
  /\ popup.curve = <<>>
  /\ popup' = [popup EXCEPT
       !.curve = <<generateBellCurve(index, popup.pos, popup.baseQ, popup.w0)>>]
  /\ PopupOnly

\* ------------------------------------------------------ specification
Ensures ==
  \/ \E c \in Slots : EnsureChecked(c)
  \/ \E c \in Slots : EnsureCreated(c)

Rehydrates ==
  \/ \E c \in Slots : RehydrateListed(c)
  \/ \E c \in Slots : RehydrateApplied(c)
  \/ \E c \in Slots : HostListStreamIds(c)

Starts ==
  \/ \E c \in Calls, t \in TabInputs : StartCall(c, t)
  \/ \E c \in Calls, g \in BOOLEAN : StartCaptured(c, g)
  \/ \E c \in Calls : StartAcked(c)

Stops ==
  \/ \E c \in Calls, t \in TabIds : StopCall(c, t)
  \/ \E c \in Calls : StopAcked(c)

Removals ==
  \/ \E c \in Calls, t \in TabIds : TabRemoved(c, t)
  \/ \E c \in Calls : RemovedAcked(c)

Queries ==
  \/ \E c \in Calls, t \in TabIds : QueryStatus(c, t)
  \/ \E c \in Calls : ListActiveSessions(c)

Reconciles ==
  \/ \E c \in Calls : ReconcileCall(c)
  \/ \E c \in Calls : ReconcileListed(c)
  \/ \E c \in Calls, g \in BOOLEAN : ReconcileCaptured(c, g)
  \/ \E c \in Calls : ReconcileAcked(c)

HostCreates ==
  \/ \E c \in Slots, x \in BOOLEAN : HostInit(c, x)
  \/ \E c \in Slots, x \in BOOLEAN : HostResumed(c, x)
  \/ \E c \in Slots, x \in BOOLEAN : HostCaptured(c, x)

HostDestroys ==
  \/ \E c \in Slots, x \in EarlyFaults : HostStop(c, x)
  \/ \E c \in Slots, x \in BOOLEAN : HostClosed(c, x)

HostLists == \E c \in Slots : HostListTabs(c)

Answers == \E c \in Calls : Answered(c)

\* the session lifecycle: every control-plane handler and event with the audio
\* host's INIT_AUDIO, STOP_EQ and listing handlers, from a fresh install
Next ==
  \/ Ensures \/ Rehydrates \/ Starts \/ Stops \/ Removals \/ Queries \/ Reconciles
  \/ HostCreates \/ HostDestroys \/ HostLists \/ Answers
  \/ OffscreenLost \/ WorkerRestart
Spec == Init /\ [][Next]_vars

\* the maps an offscreen document that outlived the worker may hold
Orders(S) ==
  {f \in [1..Cardinality(S) -> S] : \A i, j \in 1..Cardinality(S) : f[i] = f[j] => i = j}
GraphMaps ==
  UNION {{[i \in 1..Len(o) |-> NewGraph(o[i], o[i])] : o \in Orders(S)} :
           S \in SUBSET (1..MaxIds)}
\* the registries a worker that stayed alive may hold for them
SessionMaps ==
  UNION {{[i \in 1..Len(o) |-> [k |-> o[i], streamId |-> o[i], status |-> "active"]] :
             o \in Orders(S)} : S \in SUBSET (1..MaxIds)}

\* the audio host alone: INIT_AUDIO and STOP_EQ from any sender, every fault
InitHost ==
  /\ eqSessions = <<>>
  /\ startingTabs = {}
  /\ audioGraphs = <<>>
  /\ offDoc = TRUE
  /\ calls = [s \in Slots |-> IF s = 0 THEN Done(Startup, "ok") ELSE Idle]
  /\ undisturbed = FALSE
  /\ popup = Closed
HostLifecycle ==
  \/ \E c \in Calls, t \in TabInputs : HostDeliver(c, "INIT_AUDIO", t)
  \/ \E c \in Calls, t \in TabInputs : HostDeliver(c, "STOP_EQ", t)
  \/ \E c \in Calls : HostAnswered(c)
HostTeardowns ==
  \/ \E c \in Slots, x \in StopFaults : HostStop(c, x)
  \/ \E c \in Slots, x \in BOOLEAN : HostClosed(c, x)
NextHost == HostLifecycle \/ HostCreates \/ HostTeardowns
SpecHost == InitHost /\ [][NextHost]_vars

\* the SET_VOLUME values drawn: a half, a double, and one that is not a number
VolumeInputs ==
  {[value |-> 50, finite |-> TRUE], [value |-> 200, finite |-> TRUE],
   [value |-> 0, finite |-> FALSE]}
\* the UPDATE_EQ_NODES messages drawn: index 5's gain alone; gain and
\* frequency of index 2; a Q, with a key beyond the last filter; a gain back to
\* 0; a frequency at index 2 followed by a gain that is not a number at index 5;
\* a gain of 45 dB
BandCommands ==
  {[gain |-> (5 :> 6), freq |-> NoMap, q |-> NoMap, nan |-> {}],
   [gain |-> (2 :> 5), freq |-> (2 :> 120), q |-> NoMap, nan |-> {}],
   [gain |-> NoMap, freq |-> (13 :> 999), q |-> (5 :> 140), nan |-> {}],
   [gain |-> (5 :> 0), freq |-> NoMap, q |-> NoMap, nan |-> {}],
   [gain |-> (5 :> 0), freq |-> (2 :> 120), q |-> NoMap, nan |-> {<<"gain", 5>>}],
   [gain |-> (5 :> 45), freq |-> NoMap, q |-> NoMap, nan |-> {}]}
\* the audio host's filter handlers, with INIT_AUDIO, on graphs that exist or not
InitBands ==
  /\ eqSessions = <<>>
  /\ startingTabs = {}
  /\ audioGraphs \in GraphMaps
  /\ offDoc = TRUE
  /\ calls = [s \in Slots |-> IF s = 0 THEN Done(Startup, "ok") ELSE Idle]
  /\ undisturbed = FALSE
  /\ popup = Closed
HostBandMessages ==
  \/ \E c \in Calls, t \in TabInputs : HostDeliver(c, "INIT_AUDIO", t)
  \/ \E c \in Calls, t \in TabInputs : HostDeliver(c, "GET_EQ_NODES", t)
  \/ \E c \in Calls, t \in TabInputs : HostDeliver(c, "GET_SPECTRUM_DATA", t)
  \/ \E c \in Calls, t \in TabInputs, cmd \in BandCommands :
       HostDeliverUpdate(c, t, cmd)
  \/ \E c \in Calls, t \in TabInputs, v \in VolumeInputs :
       HostDeliverVolume(c, t, v)
  \/ \E c \in Calls : HostAnswered(c)
HostBands ==
  \/ \E c \in Slots : HostUpdate(c)
  \/ \E c \in Slots : HostGetNodes(c)
  \/ \E c \in Slots : HostSpectrum(c)
  \/ \E c \in Slots : HostSetVolume(c)
  \/ \E c \in Slots : PortDropped(c)
NextBands == HostBandMessages \/ HostCreates \/ HostBands
SpecBands == InitBands /\ [][NextBands]_vars

\* the master gain through the control plane, the offscreen document present
\* or lost
InitVolume ==
  /\ eqSessions = <<>>
  /\ startingTabs = {}
  /\ audioGraphs \in GraphMaps
  /\ offDoc \in BOOLEAN
  /\ audioGraphs # <<>> => offDoc
  /\ calls = [s \in Slots |-> IF s = 0 THEN Done(Startup, "ok") ELSE Idle]
  /\ undisturbed = FALSE
  /\ popup = Closed
Volumes ==
  \/ \E c \in Calls, t \in TabInputs, v \in VolumeInputs : SetVolumeCall(c, t, v)
  \/ \E c \in Calls, t \in TabInputs : GetVolumeCall(c, t)
  \/ \E c \in Calls : VolumeAcked(c)
HostVolumes ==
  \/ \E c \in Slots : HostSetVolume(c)
  \/ \E c \in Slots : HostGetVolume(c)
  \/ \E c \in Slots : PortDropped(c)
NextVolume == Volumes \/ HostVolumes \/ Answers \/ OffscreenLost
SpecVolume == InitVolume /\ [][NextVolume]_vars

\* the worker has just been loaded again; the offscreen document kept its graphs
InitRehydrate ==
  /\ eqSessions = <<>>
  /\ startingTabs = {}
  /\ audioGraphs \in GraphMaps
  /\ offDoc \in BOOLEAN
  /\ audioGraphs # <<>> => offDoc
  /\ calls = [s \in Slots |-> IF s = 0 THEN Startup ELSE Idle]
  /\ undisturbed = TRUE
  /\ popup = Closed
NextRehydrate ==
  \/ Ensures \/ Rehydrates \/ HostLists \/ Stops \/ HostDestroys \/ Answers
  \/ WorkerRestart
SpecRehydrate == InitRehydrate /\ [][NextRehydrate]_vars

\* the worker stayed alive with its sessions; the offscreen document may have
\* been lost (no document, no graphs) or replaced (some graphs missing)
InitReconcile ==
  /\ eqSessions \in SessionMaps
  /\ startingTabs = {}
  /\ audioGraphs \in GraphMaps
  /\ KeySet(audioGraphs) \subseteq KeySet(eqSessions)
  /\ offDoc \in BOOLEAN
  /\ audioGraphs # <<>> => offDoc
  /\ calls = [s \in Slots |-> IF s = 0 THEN Done(Startup, "ok") ELSE Idle]
  /\ undisturbed = FALSE
  /\ popup = Closed
NextReconcile ==
  \/ Ensures \/ Reconciles \/ HostLists \/ HostCreates \/ Stops \/ HostDestroys
  \/ Answers \/ OffscreenLost
SpecReconcile == InitReconcile /\ [][NextReconcile]_vars

\* what localStorage's eqPresets may hold when the popup opens: one preset.
\* Rising moves every node, through every gain from -30 to 30 in steps of 5;
\* Beyond holds gains no drag gives: -60 and 60 at nodes 7 and 8, -45 at every
\* third node and 45 at the others; OneNode is a preset saved with a single
\* node moved
Rising ==
  [gain |-> [i \in Bands |-> Whole(5 * i - 30)],
   freq |-> [i \in Bands |-> Whole(FREQUENCIES[i + 1])],
   baseQ |-> [i \in Bands |-> Whole(2)]]
Beyond ==
  [gain |-> [i \in Bands |-> IF i = 7 THEN Whole(-60)
                             ELSE IF i = 8 THEN Whole(60)
                             ELSE IF i % 3 = 0 THEN Whole(-45) ELSE Whole(45)],
   freq |-> [i \in Bands |-> Whole(FREQUENCIES[i + 1])],
   baseQ |-> [i \in Bands |-> IF i > 8 THEN Ratio(1, 10) ELSE Whole(2)]]
OneNode ==
  [gain |-> (5 :> Whole(-10)), freq |-> (5 :> Whole(120)), baseQ |-> NoMap]
\* the name "P1" in UTF-16 code units
P1 == <<80, 49>>
\* a preset as handleSavePreset stores it (Popup.jsx:330-336)
Named(text, p) ==
  [name |-> text, gain |-> p.gain, freq |-> p.freq, baseQ |-> p.baseQ]
StoredPresets ==
  {<<Named(P1, p)>> :
     p \in {Rising, Beyond, OneNode}}
\* what localStorage may hold when the popup opens: eqPresets with one
\* preset and no eqCurrentState, or the OneNode preset with the state a drag
\* of node 5 to -15 dB at 120 Hz left
Dragged ==
  saveEqStateToLocalStorage(5 :> Whole(125), 5 :> Whole(-15), 5 :> Whole(120),
                            5 :> Ratio(3, 10), NoMap)
Stored ==
  {[presets |-> ps, saved |-> <<>>] : ps \in StoredPresets}
    \cup {[presets |-> <<Named(P1, OneNode)>>, saved |-> Dragged]}
\* the graphs the audio host may hold for the tab when the popup asks: the
\* one INIT_AUDIO has just stored, and one with node 5 moved
BootGraphs ==
  {NewGraph(1, 1),
   [NewGraph(1, 1) EXCEPT !.gain = (5 :> -15) @@ @, !.freq = (5 :> 120) @@ @]}
\* the answers to GET_EQ_NODES: no graph (part_000:347-350), or its values
BootReplies ==
  {[ok |-> FALSE, gain |-> NoMap, freq |-> NoMap, q |-> NoMap]}
    \cup {NodeReply(NodeValues(g)) : g \in BootGraphs}
\* the names typed into the preset name input: "mine"
PresetNames == {<<109, 105, 110, 101>>}
\* the tab buttons clicked
TabNames == {"Controls", "Guide"}
\* the nodes dragged, where the mouse is taken, and what the moves compute
DragNodes == {2, 5}
MouseYs == {-125, 375}
Found == {120}
RawBaseQs == {Ratio(3, 200), Whole(6)}
\* the popup's EQ handlers, from the mount: savedPresets is read from
\* localStorage (Popup.jsx:311-321) and boot() has asked for the active tab
InitPopup ==
  /\ eqSessions = <<>>
  /\ startingTabs = {}
  /\ audioGraphs = <<>>
  /\ offDoc = TRUE
  /\ calls = [s \in Slots |-> IF s = 0 THEN Done(Startup, "ok") ELSE Idle]
  /\ undisturbed = FALSE
  /\ popup \in {[Closed EXCEPT !.presets = st.presets, !.saved = st.saved,
                                !.boot = "query"] : st \in Stored}
NextPopup ==
  \/ \E t \in TabInputs : BootTab(t)
  \/ \E reply \in BootReplies : BootNodes(reply)
  \/ \E k \in 1..MaxPresets : LoadPreset(k)
  \/ BassBoost
  \/ ResetFilters
  \/ \E text \in PresetNames : PresetNameTyped(text)
  \/ SavePreset
  \/ DeletePreset
  \/ \E i \in DragNodes, shiftKey \in BOOLEAN : NodeMouseDown(i, shiftKey)
  \/ \E i \in DragNodes, y \in MouseYs, f \in Found : Drag(i, y, f)
  \/ \E i \in DragNodes, raw \in RawBaseQs : ShiftDrag(i, raw)
  \/ MouseUp
  \/ \E elapsed \in BOOLEAN : VolumeStart(elapsed)
  \/ \E name \in TabNames, elapsed \in BOOLEAN : TabButton(name, elapsed)
  \/ \E k \in 1..MaxEvents : EnsureBackendReady(k)
  \/ MainButton
  \/ \E k \in 1..MaxEvents, ok \in BOOLEAN : MainAnswered(k, ok)
SpecPopup == InitPopup /\ [][NextPopup]_vars


\* every handler of the audio host on two sessions side by side: the messages
\* target either tab of the graphs Init may hold
SessionInputs == 1..MaxIds
SessionCommands ==
  {[gain |-> (5 :> 6), freq |-> NoMap, q |-> NoMap, nan |-> {}]}
SessionVolumes == {[value |-> 50, finite |-> TRUE]}
HostSessionMessages ==
  \/ \E c \in Calls, t \in SessionInputs : HostDeliver(c, "INIT_AUDIO", t)
  \/ \E c \in Calls, t \in SessionInputs : HostDeliver(c, "STOP_EQ", t)
  \/ \E c \in Calls, t \in SessionInputs : HostDeliver(c, "GET_EQ_NODES", t)
  \/ \E c \in Calls, t \in SessionInputs : HostDeliver(c, "GET_SPECTRUM_DATA", t)
  \/ \E c \in Calls, t \in SessionInputs : HostDeliver(c, "GET_VOLUME", t)
  \/ \E c \in Calls : HostDeliver(c, "GET_ACTIVE_TABS", 0)
  \/ \E c \in Calls, t \in SessionInputs, cmd \in SessionCommands :
       HostDeliverUpdate(c, t, cmd)
  \/ \E c \in Calls, t \in SessionInputs, v \in SessionVolumes :
       HostDeliverVolume(c, t, v)
  \/ \E c \in Calls : HostAnswered(c)
HostSessions ==
  \/ \E c \in Slots : HostUpdate(c)
  \/ \E c \in Slots : HostGetNodes(c)
  \/ \E c \in Slots : HostSpectrum(c)
  \/ \E c \in Slots : HostSetVolume(c)
  \/ \E c \in Slots : HostGetVolume(c)
NextSessions ==
  HostSessionMessages \/ HostCreates \/ HostDestroys \/ HostLists \/ HostSessions
SpecSessions == InitBands /\ [][NextSessions]_vars

\* the response curve alone: one node dragged to a y offset, with the base Q
\* stored for it or not, and the angle of its centre frequency (about 4.5,
\* 6.5, 11 and 15.5 kHz).  The peaking node is drawn for boosts and cuts, the
\* two shelves for boosts
CurveNodes == {2, 5, 12}
CurveOffsets == {-240, -125, -50, 0, 50, 125, 240}
CurveInputs ==
  {n \in [index : CurveNodes, y : CurveOffsets] : n.index = 5 \/ n.y <= 0}
CurveBaseQs == {NoMap, [i \in CurveNodes |-> Ratio(1, 2)]}
CurveAngles ==
  {[sin |-> Ratio(3, 5), cos |-> Ratio(4, 5)], [sin |-> Ratio(4, 5), cos |-> Ratio(3, 5)],
   [sin |-> Whole(1), cos |-> Whole(0)], [sin |-> Ratio(4, 5), cos |-> Ratio(-3, 5)]}
InitCurve ==
  /\ eqSessions = <<>>
  /\ startingTabs = {}
  /\ audioGraphs = <<>>
  /\ offDoc = TRUE
  /\ calls = [s \in Slots |-> IF s = 0 THEN Done(Startup, "ok") ELSE Idle]
  /\ undisturbed = FALSE
  /\ \E n \in CurveInputs, b \in CurveBaseQs, w \in CurveAngles :
       popup = [pos |-> (n.index :> Whole(n.y)), baseQ |-> b, w0 |-> w,
                curve |-> <<>>]
NextCurve == \E index \in CurveNodes : RenderCurve(index)
SpecCurve == InitCurve /\ [][NextCurve]_vars

\* the lifecycle of one tab when nothing fails: every getMediaStreamId is
\* granted, the audio host completes every INIT_AUDIO and STOP_EQ, the
\* offscreen document stays and the worker is not reloaded
Granted ==
  \/ \E c \in Calls, t \in TabIds : StartCall(c, t)
  \/ \E c \in Calls : StartCaptured(c, TRUE)
  \/ \E c \in Calls : StartAcked(c)
  \/ \E c \in Calls : ReconcileCall(c)
  \/ \E c \in Calls : ReconcileListed(c)
  \/ \E c \in Calls : ReconcileCaptured(c, TRUE)
  \/ \E c \in Calls : ReconcileAcked(c)
  \/ \E c \in Slots : EnsureChecked(c)
HostCompletes ==
  \/ \E c \in Slots : HostInit(c, FALSE)
  \/ \E c \in Slots : HostResumed(c, TRUE)
  \/ \E c \in Slots : HostCaptured(c, TRUE)
  \/ \E c \in Slots : HostStop(c, "none")
  \/ \E c \in Slots : HostClosed(c, TRUE)
NextFaultless == Granted \/ Stops \/ Removals \/ HostCompletes \/ HostLists \/ Answers
SpecFaultless == InitHost /\ [][NextFaultless]_vars

\* START_EQ while every request completes: hasDocument, createDocument,
\* getMediaStreamId and INIT_AUDIO all settle, with a result or with an error,
\* and the worker runs the continuation of a settled await
StartFairness ==
  \A c \in Calls :
    /\ WF_vars(EnsureChecked(c))
    /\ WF_vars(EnsureCreated(c))
    /\ WF_vars(\E g \in BOOLEAN : StartCaptured(c, g))
    /\ WF_vars(StartAcked(c))
    /\ WF_vars(\E x \in BOOLEAN : HostInit(c, x))
    /\ WF_vars(\E x \in BOOLEAN : HostResumed(c, x))
    /\ WF_vars(\E x \in BOOLEAN : HostCaptured(c, x))
NextStart ==
  \/ Ensures \/ Starts \/ Stops \/ HostCreates \/ HostDestroys \/ Answers
  \/ OffscreenLost
SpecStart == InitHost /\ [][NextStart]_vars /\ StartFairness


\* REINIT_MISSING_AUDIO with the STOP_EQ messages that arrive while it is
\* re-creating their tab: after getMediaStreamId was called for the tab and
\* before the INIT_AUDIO acknowledgement was handled
Reinitializing(t) ==
  \E d \in Calls :
    /\ calls[d].op = "reconcile" /\ calls[d].pc \in {"cap", "init"}
    /\ calls[d].cur = t
StopsDuringReinit ==
  \/ \E c \in Calls, t \in TabIds : Reinitializing(t) /\ StopCall(c, t)
  \/ \E c \in Calls : StopAcked(c)
NextStopDuringReinit ==
  \/ Ensures \/ Reconciles \/ HostLists \/ HostCreates \/ StopsDuringReinit
  \/ HostDestroys \/ Answers
SpecStopDuringReinit == InitReconcile /\ [][NextStopDuringReinit]_vars

\* ------------------------------------------------------------ claims
\* a startEqForTab invocation that took the lock and has not returned
Holding(c) == calls[c].op = "start" /\ calls[c].pc \in {"has", "create", "cap", "init"}
\* invocation c returns in this step
Returns(c) == calls[c].pc # "done" /\ calls'[c].pc = "done"

\* C1: whenever StartSession(id) returns ok:true for a session it started or
\* found registered, a graph for id exists in the audio host at that moment.
C1_OkMeansGraph ==
  [][\A c \in Calls :
       (Returns(c) /\ calls'[c].op = "start"
          /\ calls'[c].res \in {"ok", "alreadyActive"})
       => Has(audioGraphs', calls'[c].tab)]_vars

\* C2: a START_EQ that arrives while its tab is in startingTabs is answered
\* alreadyStarting in the same step, without a stream id, a registry write or
\* an INIT_AUDIO; so at most one running start per tab has an INIT_AUDIO out.
SingleStarter ==
  \A t \in TabInputs :
    Cardinality({c \in Calls : Holding(c) /\ calls[c].tab = t}) <= 1
C2_DuplicateStartCollapses ==
  [][/\ \A c \in Calls :
          (calls[c].pc = "free" /\ calls'[c].op = "start"
             /\ calls'[c].tab \in startingTabs)
          => /\ calls'[c].pc = "done" /\ calls'[c].res = "alreadyStarting"
             /\ calls'[c].msg = "none" /\ calls'[c].sid = 0
             /\ UNCHANGED <<eqSessions, startingTabs, audioGraphs>>
     /\ SingleStarter']_vars
C2_Witness ==
  \E c, d \in Calls :
    /\ calls[c].pc = "done" /\ calls[c].res = "alreadyStarting"
    /\ calls[d].op = "start" /\ calls[d].tab = calls[c].tab
    /\ calls[d].pc = "init" /\ calls[d].h # "resp"

\* C3: a StartSession(id) that fails after asking for the stream id (the
\* request throws, the message to the host throws, or the host answers
\* ok:false) leaves no registry entry for id when it returns.
C3_FailedStartUnregisters ==
  [][\A c \in Calls :
       (Returns(c) /\ calls[c].op = "start"
          /\ (calls[c].pc = "cap"
                \/ (calls[c].pc = "init" /\ calls[c].hres \in {"fail", "err"})))
       => ~Has(eqSessions', calls[c].tab)]_vars

\* C4: a tab is in startingTabs exactly while a startEqForTab invocation that
\* took the lock for it has not returned.
C4_LockIffInFlight ==
  startingTabs = {calls[c].tab : c \in {d \in Calls : Holding(d)}}
C4_Witness ==
  \E c, d \in Calls :
    /\ calls[c].op = "start" /\ calls[c].pc = "done" /\ calls[c].res = "error"
    /\ calls[d].op = "start" /\ calls[d].pc = "done"
    /\ calls[d].res = "alreadyStarting" /\ calls[d].tab = calls[c].tab
    /\ calls[c].tab \notin startingTabs

\* C5: a START_EQ that arrives while eqSessions lists its tab and no start of
\* that tab is in flight is a no-op: in every step startEqForTab takes for it,
\* it asks for no stream id, sends no INIT_AUDIO and leaves the registry and
\* the graphs as they are, and it answers alreadyActive.
C5_AlreadyActiveNoOp ==
  [][\A c \in Calls :
       (calls[c].op = "start" /\ calls[c].listed
          /\ calls'[c].op = "start" /\ calls'[c] # calls[c])
       => /\ calls'[c].msg = "none" /\ calls'[c].sid = 0
          /\ calls'[c].pc \in {"has", "create", "done"}
          /\ calls'[c].pc = "done" => calls'[c].res = "alreadyActive"
          /\ UNCHANGED <<eqSessions, audioGraphs>>]_vars

\* C6: once STOP_EQ for a tab has begun, GET_EQ_STATUS and
\* GET_ALL_ACTIVE_TABS report the tab as not active until a START_EQ for it
\* arrives later.
Inactive(t) == StatusReply(t) = "inactive" /\ t \notin SeqSet(ListReply)
C6_InactiveUntilLaterStart ==
  \A c \in Calls : (calls[c].op = "stop" /\ ~calls[c].later) => Inactive(calls[c].tab)

\* C7: when the audio host fails STOP_EQ or cannot be reached, the caller is
\* answered ok:false and the registry is not touched: the tab stays removed.
C7_FailedStopReported ==
  [][\A c \in Calls :
       (Returns(c) /\ calls[c].op = "stop" /\ calls[c].hres \in {"fail", "err"})
       => /\ calls'[c].res = "error"
          /\ eqSessions' = eqSessions
          /\ ~calls[c].readded => ~Has(eqSessions', calls[c].tab)]_vars
C7_Witness ==
  \E c \in Calls :
    /\ calls[c].op = "stop" /\ calls[c].pc = "done" /\ calls[c].res = "error"
    /\ ~Has(eqSessions, calls[c].tab) /\ Has(audioGraphs, calls[c].tab)

\* C8: when tabs.onRemoved arrives, the registry entry is removed before
\* STOP_EQ is forwarded to the audio host, as STOP_EQ does it.
C8_RemovedEntryGoesFirst ==
  \A c \in Calls :
    (calls[c].op = "removed" /\ calls[c].msg = "STOP_EQ")
    => ~Has(eqSessions, calls[c].tab)

\* C9: when the startup rehydration completes and nothing else ran since the
\* worker was loaded, the registry lists exactly the tabs that have a graph,
\* each active and with the stream id its graph holds.
C9_RehydrateMirrorsHost ==
  (calls[0].pc = "done" /\ undisturbed)
  => /\ KeySet(eqSessions) = KeySet(audioGraphs)
     /\ \A i \in 1..Len(eqSessions) :
          /\ eqSessions[i].status = "active"
          /\ eqSessions[i].streamId = Get(audioGraphs, eqSessions[i].k).streamId
C9_Witness ==
  /\ calls[0].pc = "done" /\ undisturbed
  /\ Len(eqSessions) >= 2

\* C10: REINIT_MISSING_AUDIO works on exactly the registry tabs the audio host
\* did not report: only for them it asks for a stream id and sends INIT_AUDIO;
\* when INIT_AUDIO is acknowledged ok the graph exists, the registry entry
\* holds the fresh stream id with status active and the tab is listed as
\* reinitialized.
Reported(c) == SeqSet(calls[c].keys) \ SeqSet(calls[c].snap)
ReconcileTargets ==
  \A c \in Calls :
    (calls[c].op = "reconcile" /\ calls[c].pc \in {"cap", "init"})
    => /\ calls[c].cur \in Reported(c)
       /\ SeqSet(calls[c].missing) \subseteq Reported(c)
       /\ calls[c].msg = "INIT_AUDIO" => calls[c].sid # 0
C10_ReconcileRecreatesMissing ==
  [][/\ ReconcileTargets'
     /\ \A c \in Calls :
          /\ (calls[c].op = "reconcile" /\ calls[c].pc = "tabs"
                /\ calls[c].hres = "ok" /\ calls'[c].pc \in {"cap", "done"})
             => {calls'[c].cur} \cup SeqSet(calls'[c].missing)
                  = (SeqSet(calls[c].keys) \ SeqSet(calls[c].snap))
                      \cup (IF calls'[c].pc = "done" THEN {0} ELSE {})
          /\ (calls[c].op = "reconcile" /\ calls[c].pc = "cap"
                /\ calls'[c].op = "reconcile" /\ calls'[c].pc = "init"
                /\ Has(eqSessions, calls[c].cur))
             => calls'[c].sid # Get(eqSessions, calls[c].cur).streamId
          /\ (calls[c].op = "reconcile" /\ calls[c].msg = "INIT_AUDIO"
                /\ calls[c].h # "resp" /\ calls'[c].h = "resp"
                /\ calls'[c].hres = "ok")
             => Has(audioGraphs', calls[c].cur)
          /\ (calls[c].op = "reconcile" /\ calls[c].pc = "init"
                /\ calls[c].h = "resp" /\ calls[c].hres = "ok"
                /\ calls'[c].op = "reconcile" /\ calls'[c].pc \in {"cap", "done"})
             => /\ Has(eqSessions', calls[c].cur)
                /\ Get(eqSessions', calls[c].cur)
                     = [k |-> calls[c].cur, streamId |-> calls[c].sid,
                        status |-> "active"]
                /\ calls[c].cur \in SeqSet(calls'[c].reinit)]_vars
\* C11: REINIT_MISSING_AUDIO never removes a registry entry; when
\* getMediaStreamId throws for a tab, or INIT_AUDIO fails or cannot be
\* delivered, the registry is left as it is, the tab is not added to
\* reinitialized, and the handler goes on to the next missing tab or answers
\* ok:true.
ReconcileGivesUp(c) ==
  /\ calls[c].op = "reconcile" /\ calls'[c].op = "reconcile"
  /\ calls'[c] # calls[c]
  /\ \/ calls[c].pc = "cap" /\ calls'[c].pc # "init"
     \/ /\ calls[c].pc = "init" /\ calls[c].h = "resp"
        /\ calls[c].hres \in {"fail", "err"}
        /\ calls'[c].pc \in {"cap", "done"}
C11_ReconcileKeepsFailed ==
  [][\A c \in Calls :
       /\ (calls[c].op = "reconcile" /\ calls'[c].op = "reconcile"
             /\ calls'[c] # calls[c] /\ calls'[c].pc # "dead")
          => KeySet(eqSessions) \subseteq KeySet(eqSessions')
       /\ ReconcileGivesUp(c)
          => /\ eqSessions' = eqSessions
             /\ calls'[c].reinit = calls[c].reinit
             /\ IF calls[c].missing = <<>>
                THEN calls'[c].pc = "done" /\ calls'[c].res = "ok"
                ELSE /\ calls'[c].pc = "cap"
                     /\ calls'[c].cur = Head(calls[c].missing)]_vars
C11_Witness ==
  \E c \in Calls :
    /\ calls[c].op = "reconcile" /\ calls[c].pc = "done" /\ calls[c].res = "ok"
    /\ Len(eqSessions) = 2
    /\ eqSessions[1].k \notin SeqSet(calls[c].reinit)
    /\ eqSessions[1].streamId = eqSessions[1].k
    /\ ~Has(audioGraphs, eqSessions[1].k)
    /\ eqSessions[2].k \in SeqSet(calls[c].reinit)

\* C12: for every tab at most one AudioContext is live: the one of its graph,
\* or the one an INIT_AUDIO handler has opened and not yet stored.
Creating(t) ==
  {c \in Slots : calls[c].msg = "INIT_AUDIO" /\ calls[c].cur = t
                   /\ calls[c].h \in {"resume", "capture"}}
C12_OneContextPerTab ==
  \A t \in TabIds :
    Cardinality(Creating(t)) + (IF Has(audioGraphs, t) THEN 1 ELSE 0) <= 1

\* C14: when INIT_AUDIO answers ok:false, the handler holds no open
\* AudioContext: what it had opened has been closed.
C14_FailedCreateClosesContext ==
  \A c \in Slots :
    (calls[c].msg = "INIT_AUDIO" /\ calls[c].h = "resp" /\ calls[c].hres = "fail")
    => calls[c].ctx = "none"

\* C15: when STOP_EQ answers for a tab that had a graph, audioGraphs no
\* longer holds the tab, whichever teardown step threw.
StopResponds(c) ==
  /\ calls[c].msg = "STOP_EQ" /\ calls[c].h \in {"sent", "close"}
  /\ calls'[c].msg = "STOP_EQ" /\ calls'[c].h = "resp"
  /\ calls'[c].hres \in {"ok", "fail"}
C15_DestroyAlwaysRemoves ==
  [][\A c \in Slots : StopResponds(c) => ~Has(audioGraphs', calls[c].cur)]_vars

\* C16: STOP_EQ on an existing graph disconnects the source node, then the
\* gain node, then stops the tracks, then closes the context, then deletes the
\* entry: tracks are never stopped while a node is connected, close() is
\* awaited only with nodes disconnected and tracks stopped, the entry is
\* there until close() has settled, and ok is answered only after that.
TornDownInOrder(g) == (~g.live => ~g.out) /\ (~g.out => ~g.src)
C16_DestroyOrder ==
  [][\A c \in Slots :
       /\ \A i \in 1..Len(audioGraphs') : TornDownInOrder(audioGraphs'[i])
       /\ (calls[c].msg = "STOP_EQ" /\ calls[c].h = "sent"
             /\ calls'[c].h # "sent" /\ Has(audioGraphs, calls[c].cur))
          => /\ Has(audioGraphs', calls[c].cur)
             /\ calls'[c].h = "resp" => calls'[c].hres # "ok"
             /\ calls'[c].h = "close"
                => LET g == Get(audioGraphs', calls[c].cur) IN
                   ~g.src /\ ~g.out /\ ~g.live
       /\ (calls[c].h = "close" /\ calls'[c].h = "resp" /\ calls'[c].hres = "ok")
          => ~Has(audioGraphs', calls[c].cur)]_vars
C16_Witness ==
  \E c, d \in Calls :
    /\ calls[c].msg = "STOP_EQ" /\ calls[c].h = "resp" /\ calls[c].hres = "ok"
    /\ calls[d].msg = "STOP_EQ" /\ calls[d].h = "resp" /\ calls[d].hres = "fail"
    /\ calls[c].cur = calls[d].cur /\ ~Has(audioGraphs, calls[c].cur)

\* C17: a STOP_EQ handler runs for a tab only when no INIT_AUDIO handler for
\* that tab is parked at an await.
C17_DestroyWaitsForCreate ==
  [][\A c \in Slots :
       (calls[c].msg = "STOP_EQ" /\ calls[c].h = "sent" /\ calls'[c].h # "sent")
       => Creating(calls[c].cur) = {}]_vars

\* C18: an INIT_AUDIO handled while a STOP_EQ for its tab awaits close()
\* builds a new graph: it opens a context instead of answering at once.
Closing(t) ==
  {c \in Slots : calls[c].msg = "STOP_EQ" /\ calls[c].cur = t /\ calls[c].h = "close"}
C18_CreateDuringDestroyBuilds ==
  [][\A c \in Slots :
       (calls[c].msg = "INIT_AUDIO" /\ calls[c].h = "sent" /\ calls'[c].h # "sent"
          /\ calls[c].cur # 0 /\ Closing(calls[c].cur) # {})
       => calls'[c].h = "resume" /\ calls'[c].ctx = "open"]_vars

\* C13: an INIT_AUDIO for a tab whose graph exists is answered ok at once,
\* opens no context and leaves audioGraphs (stream id, filters, master gain of
\* every graph) as it was.
Handled(c, type) ==
  /\ calls[c].msg = type /\ calls[c].h = "sent"
  /\ calls'[c].msg = type /\ calls'[c].h # "sent"
C13_CreateIdempotent ==
  [][\A c \in Slots :
       (Handled(c, "INIT_AUDIO") /\ Has(audioGraphs, calls[c].cur))
       => /\ calls'[c].h = "resp" /\ calls'[c].hres = "ok"
          /\ calls'[c].ctx = "none"
          /\ audioGraphs' = audioGraphs]_vars
C13_Witness ==
  \E c \in Calls :
    /\ calls[c].msg = "INIT_AUDIO" /\ calls[c].h = "resp" /\ calls[c].hres = "ok"
    /\ Has(audioGraphs, calls[c].cur)
    /\ Get(audioGraphs, calls[c].cur).streamId # calls[c].sid
    /\ Get(audioGraphs, calls[c].cur).gain[5] = 6

\* C19: UPDATE_EQ_NODES changes a filter's frequency, Q or gain only where the
\* map of that parameter has the filter's index as a key; every other
\* parameter of every filter, and everything else of the graph, stays.
Untouched(g, h, cmd) ==
  /\ \A i \in Bands :
       /\ i \notin DOMAIN cmd.gain => h.gain[i] = g.gain[i]
       /\ i \notin DOMAIN cmd.freq => h.freq[i] = g.freq[i]
       /\ i \notin DOMAIN cmd.q => h.q[i] = g.q[i]
  /\ [h EXCEPT !.gain = g.gain, !.freq = g.freq, !.q = g.q] = g
C19_SparseMerge ==
  [][\A c \in Slots :
       (Handled(c, "UPDATE_EQ_NODES") /\ Has(audioGraphs, calls[c].cur))
       => /\ Has(audioGraphs', calls[c].cur)
          /\ Untouched(Get(audioGraphs, calls[c].cur),
                       Get(audioGraphs', calls[c].cur), calls[c].arg)]_vars
C19_Witness ==
  \E c \in Calls :
    /\ calls[c].msg = "UPDATE_EQ_NODES" /\ calls[c].h = "resp"
    /\ calls[c].hres = "ok" /\ DOMAIN calls[c].arg.gain = {5}
    /\ Has(audioGraphs, calls[c].cur)
    /\ LET g == Get(audioGraphs, calls[c].cur) IN
       /\ g.gain[5] = 6 /\ g.gain[2] = 5 /\ g.freq[2] = 120
       /\ g.q[5] = DefaultQ(5) /\ g.freq[5] = FREQUENCIES[6]

\* C20: UPDATE_EQ_NODES, GET_EQ_NODES and GET_SPECTRUM_DATA for a tab without
\* a graph answer ok:false and leave audioGraphs as it was.
C20_NotFoundNoOp ==
  [][\A c \in Slots :
       \A type \in {"UPDATE_EQ_NODES", "GET_EQ_NODES", "GET_SPECTRUM_DATA"} :
         (Handled(c, type) /\ ~Has(audioGraphs, calls[c].cur))
         => /\ calls'[c].h = "resp" /\ calls'[c].hres = "fail"
            /\ audioGraphs' = audioGraphs]_vars
C20_Witness ==
  \E c, d \in Calls :
    /\ calls[c].msg = "UPDATE_EQ_NODES" /\ calls[c].h = "resp"
    /\ calls[c].hres = "fail" /\ calls[c].cur = 1
    /\ calls[d].msg = "GET_EQ_NODES" /\ calls[d].h = "resp"
    /\ calls[d].hres = "fail" /\ calls[d].cur = 1
    /\ ~Has(audioGraphs, 1) /\ Has(audioGraphs, 2)

\* C21: UPDATE_EQ_NODES that answers ok has stored, for every filter index in
\* a map, the value of the map; GET_EQ_NODES answers the stored frequency and
\* Q of all 13 filters and the stored gain of exactly the filters whose gain
\* is not 0.
Written(h, cmd) ==
  \A i \in Bands :
    /\ i \in DOMAIN cmd.gain => h.gain[i] = cmd.gain[i]
    /\ i \in DOMAIN cmd.freq => h.freq[i] = cmd.freq[i]
    /\ i \in DOMAIN cmd.q => h.q[i] = cmd.q[i]
Reads(reply, g) ==
  /\ DOMAIN reply.freq = Bands /\ DOMAIN reply.q = Bands
  /\ \A i \in Bands : reply.freq[i] = g.freq[i] /\ reply.q[i] = g.q[i]
  /\ DOMAIN reply.gain = {i \in Bands : g.gain[i] # 0}
  /\ \A i \in DOMAIN reply.gain : reply.gain[i] = g.gain[i]
C21_ReadYourWrites ==
  [][\A c \in Slots :
       /\ (Handled(c, "UPDATE_EQ_NODES") /\ Has(audioGraphs, calls[c].cur)
             /\ calls'[c].hres = "ok")
          => /\ Written(Get(audioGraphs', calls[c].cur), calls[c].arg)
             /\ Untouched(Get(audioGraphs, calls[c].cur),
                          Get(audioGraphs', calls[c].cur), calls[c].arg)
       /\ (Handled(c, "GET_EQ_NODES") /\ Has(audioGraphs, calls[c].cur))
          => /\ calls'[c].hres = "ok" /\ audioGraphs' = audioGraphs
             /\ Reads(calls'[c].reply, Get(audioGraphs, calls[c].cur))]_vars
C21_Witness ==
  \E c, d \in Calls :
    /\ calls[c].msg = "UPDATE_EQ_NODES" /\ calls[c].h = "resp"
    /\ calls[c].hres = "ok" /\ DOMAIN calls[c].arg.freq = {2}
    /\ calls[d].msg = "GET_EQ_NODES" /\ calls[d].h = "resp"
    /\ calls[d].hres = "ok" /\ calls[d].cur = calls[c].cur
    /\ DOMAIN calls[d].reply.gain = {2} /\ calls[d].reply.gain[2] = 5
    /\ calls[d].reply.freq[2] = 120 /\ calls[d].reply.q[2] = DEFAULT_SHELF_Q

\* C22: GET_VOLUME for a tab without a graph is never answered with an error:
\* the caller of the control plane gets ok (with gain 1.0).
C22_NoErrorWithoutGraph ==
  [][\A c \in Calls :
       (Returns(c) /\ calls[c].op = "getvol"
          /\ ~Has(audioGraphs, calls[c].tab))
       => calls'[c].res = "ok"]_vars

\* C23: SET_VOLUME writes the master gain of its tab's graph and nothing
\* else; without a graph it answers ok and writes nothing; UPDATE_EQ_NODES
\* never writes the master gain.
C23_GainAndFiltersApart ==
  [][\A c \in Slots :
       /\ (Handled(c, "SET_VOLUME") /\ Has(audioGraphs, calls[c].cur))
          => audioGraphs' =
               IF calls'[c].hres = "ok"
               THEN MapSet(audioGraphs,
                           [Get(audioGraphs, calls[c].cur)
                              EXCEPT !.vol = calls[c].arg.value])
               ELSE audioGraphs
       /\ (Handled(c, "SET_VOLUME") /\ ~Has(audioGraphs, calls[c].cur))
          => /\ calls'[c].h = "resp" /\ calls'[c].hres = "ok"
             /\ audioGraphs' = audioGraphs
       /\ (Handled(c, "UPDATE_EQ_NODES") /\ Has(audioGraphs, calls[c].cur))
          => Get(audioGraphs', calls[c].cur).vol
               = Get(audioGraphs, calls[c].cur).vol]_vars
C23_Witness ==
  \E c, d \in Calls :
    /\ calls[c].msg = "SET_VOLUME" /\ calls[c].h = "resp" /\ calls[c].hres = "ok"
    /\ calls[d].msg = "UPDATE_EQ_NODES" /\ calls[d].h = "resp"
    /\ calls[d].hres = "ok" /\ calls[d].cur = calls[c].cur
    /\ Has(audioGraphs, calls[c].cur)
    /\ LET g == Get(audioGraphs, calls[c].cur) IN
       /\ g.vol = 50 /\ calls[c].arg.value = 50
       /\ g.gain[5] = 6 /\ g.q[5] = 140

\* the coupling written out: baseQ * 1.5 - baseQ * |gainDb| / 30 for a peaking
\* band, baseQ for the two shelves
Coupled(i, baseQ, gainDb) ==
  IF i \in {2, 12} THEN baseQ
  ELSE Minus(Times(baseQ, Ratio(3, 2)),
             Over(Times(baseQ, MathAbs(gainDb)), Whole(30)))
\* -30 <= g <= 30
Within30(g) == ~LessThan(g, Whole(-30)) /\ ~LessThan(Whole(30), g)
\* an ensureBackendReady that closed over e sends UPDATE_EQ_NODES
Sends(e) == e.tab # 0 /\ DOMAIN e.gain # {}
\* the baseQ a band has when the popup holds none for it
BaseQOf(m, i) == Coalesce(m, i, IF i \in {2, 12} THEN Ratio(3, 4) ELSE Ratio(3, 10))

\* the step is a load of the k-th preset listed: LoadPreset(k), with what is
\* quick to tell of such a step tested first
Loads(k) ==
  /\ k \in 1..Len(popup.presets)
  /\ popup'.selected = popup.presets[k].name
  /\ popup'.events # popup.events
  /\ popup'.drag = popup.drag /\ popup'.ensure = popup.ensure
  /\ popup'.main = popup.main /\ popup'.activeTab = popup.activeTab
  /\ popup'.presets = popup.presets /\ popup'.saved # <<>>
  /\ LoadPreset(k)
\* the step is the answer to the k-th ensureBackendReady waiting, and that
\* call sends UPDATE_EQ_NODES
EnsureSends(k) ==
  /\ k \in 1..Len(popup.ensure)
  /\ Len(popup'.ensure) < Len(popup.ensure)
  /\ Sends(popup.ensure[k])
  /\ EnsureBackendReady(k)

\* C24: for every band other than 2 and 12 and every gain in [-30, 30] the
\* effective Q is baseQ * (1.5 - |gainDb| / 30), which is 1.5 * baseQ at 0 dB
\* and 0.5 * baseQ at +-30 dB, and for bands 2 and 12 it is baseQ; the preset
\* load (baseQToQ), the drag handler, ensureBackendReady and the response curve
\* all compute it so
C24_Coupling ==
  [][/\ \A k \in 1..MaxPresets :
          Loads(k) =>
            \A i \in Bands :
              LET b == popup'.saved[1].baseQ[i]
                  g == popup'.gain[i]
              IN Within30(g) =>
                   /\ popup'.q[i] = Coupled(i, b, g)
                   /\ (i \notin {2, 12} /\ g = Whole(0)) =>
                        popup'.q[i] = Times(Ratio(3, 2), b)
                   /\ (i \notin {2, 12} /\ MathAbs(g) = Whole(30)) =>
                        popup'.q[i] = Times(Ratio(1, 2), b)
                   /\ i \in {2, 12} => popup'.q[i] = b
     /\ \A n \in DragNodes, y \in MouseYs, f \in Found :
          Drag(n, y, f) =>
            /\ Within30(popup'.gain[n])
            /\ popup'.q[n] =
                 Coupled(n, BaseQOf(popup.drag[1].baseQ, n), popup'.gain[n])
     /\ \A k \in 1..MaxEvents :
          EnsureSends(k) =>
            \A i \in Bands :
              LET g == Coalesce(popup.ensure[k].gain, i, Whole(0)) IN
              Within30(g) =>
                popup'.sent[1].q[i] =
                  Coupled(i, BaseQOf(popup.ensure[k].baseQ, i), g)
     /\ (popup'.pos # popup.pos \/ popup'.baseQ # popup.baseQ) =>
          \A i \in DOMAIN popup'.pos :
            LET g == CurveGain(popup'.pos, i) IN
            /\ Within30(g)
            /\ CurveQ(i, popup'.baseQ, g) = Coupled(i, BaseQOf(popup'.baseQ, i), g)
    ]_vars
\* the Rising preset was loaded (node 6 at 0 dB with baseQ 2 has Q 3, the
\* shelf node 2 has Q 2) and node 5 was then dragged to +30 dB (Q 1)
C24_Witness ==
  /\ popup.presets = <<Named(P1, Rising)>>
  /\ DOMAIN popup.gain = Bands /\ DOMAIN popup.q = Bands
  /\ popup.gain[6] = Whole(0) /\ popup.q[6] = Whole(3)
  /\ popup.gain[2] = Whole(-20) /\ popup.q[2] = Whole(2)
  /\ popup.gain[5] = Whole(30) /\ popup.baseQ[5] = Whole(2) /\ popup.q[5] = Whole(1)

\* C25: for every band, every baseQ and every gain whose coupling factor
\* 1.5 - |gainDb| / 30 is not zero, converting baseQ to Q and back gives baseQ
\* again; initializeEqState does exactly this to the values of a preset
C25_RoundTrip ==
  [][\A k \in 1..MaxPresets :
       Loads(k) =>
       \A i \in Bands :
         LET g == popup'.gain[i] IN
         Minus(Ratio(3, 2), Over(MathAbs(g), Whole(30))) # Whole(0) =>
           popup'.baseQ[i] = popup'.saved[1].baseQ[i]]_vars
\* a preset with node 7 at -60 dB (factor -0.5) was loaded: its Q is -1 and
\* its baseQ is 2 again
C25_Witness ==
  /\ DOMAIN popup.baseQ = Bands /\ popup.saved # <<>>
  /\ popup.gain[7] = Whole(-60) /\ popup.q[7] = Whole(-1)
  /\ popup.saved[1].baseQ[7] = Whole(2) /\ popup.baseQ[7] = Whole(2)

\* C26: the inverse mapping never yields a baseQ that is not finite: for a
\* peaking band whose coupling factor is 0 (|gainDb| = 45) it yields the default
\* 0.3 without dividing, and for the shelves 2 and 12 it yields the Q it was
\* given, whatever the gain
C26_InverseFinite ==
  [][\A k \in 1..MaxPresets :
       Loads(k) =>
       \A i \in Bands :
         /\ Finite(popup'.baseQ[i])
         /\ (i \notin {2, 12} /\ MathAbs(popup'.gain[i]) = Whole(45)) =>
              popup'.baseQ[i] = Ratio(3, 10)
         /\ i \in {2, 12} => popup'.baseQ[i] = popup'.q[i]]_vars
\* a preset with nodes at 45 and at -45 dB and baseQ 2 was loaded: Q is 0,
\* the peaking nodes 5 and 3 have baseQ 0.3 and the shelf node 2 kept 2
C26_Witness ==
  /\ DOMAIN popup.baseQ = Bands
  /\ popup.gain[5] = Whole(45) /\ popup.q[5] = Whole(0)
  /\ popup.baseQ[5] = Ratio(3, 10)
  /\ popup.gain[3] = Whole(-45) /\ popup.q[3] = Whole(0)
  /\ popup.baseQ[3] = Ratio(3, 10)
  /\ popup.gain[2] = Whole(45) /\ popup.q[2] = Whole(2) /\ popup.baseQ[2] = Whole(2)

\* C27: whatever the write path, the values a graph holds satisfy frequency in
\* [1, 21500] Hz, gain in [-30, 30] dB and Q in [0.1, 2.0] (10 .. 200
\* hundredths): out-of-range values of a command are clamped
C27_StoredInRange ==
  \A k \in 1..Len(audioGraphs) : \A i \in Bands :
    /\ audioGraphs[k].freq[i] \in 1..21500
    /\ audioGraphs[k].gain[i] \in -30..30
    /\ audioGraphs[k].q[i] \in 10..200

\* C28: the Q the live filter of a band was sent is the coupling formula
\* applied to the band's current baseQ and gain
C28_QDerived ==
  popup.sent # <<>> =>
    \A i \in DOMAIN popup.sent[1].q :
      popup.sent[1].q[i] =
        baseQToQ(i, BaseQOf(popup.baseQ, i), Coalesce(popup.sent[1].gain, i, Whole(0)))

\* C29: a graph that INIT_AUDIO has just stored has 13 filters with the
\* frequencies of the fixed table, gain 0, type lowshelf at index 2, highshelf
\* at index 12 and peaking elsewhere, Q 0.75 for the two shelves and 0.3 for the
\* others, and master gain 1.0
C29_StartsAtDefaults ==
  [][\A t \in TabInputs :
       (~Has(audioGraphs, t) /\ Has(audioGraphs', t)) =>
         LET g == Get(audioGraphs', t) IN
         /\ g.vol = 100
         /\ DOMAIN g.freq = 0..12 /\ DOMAIN g.gain = 0..12
         /\ DOMAIN g.q = 0..12 /\ DOMAIN g.type = 0..12
         /\ g.freq = [i \in 0..12 |->
                        <<5, 10, 20, 40, 80, 160, 320, 640, 1280, 2560, 5120,
                          10240, 20480>>[i + 1]]
         /\ \A i \in 0..12 :
              /\ g.gain[i] = 0
              /\ g.type[i] = CASE i = 2 -> "lowshelf" [] i = 12 -> "highshelf"
                               [] OTHER -> "peaking"
              /\ g.q[i] = IF i \in {2, 12} THEN 75 ELSE 30]_vars
\* INIT_AUDIO stored a graph under the stream id it was sent and answered ok,
\* while another graph had been changed
C29_Witness ==
  \E c \in Calls :
    /\ calls[c].msg = "INIT_AUDIO" /\ calls[c].h = "resp" /\ calls[c].hres = "ok"
    /\ Has(audioGraphs, calls[c].cur)
    /\ Get(audioGraphs, calls[c].cur).streamId = calls[c].sid
    /\ Get(audioGraphs, calls[c].cur).q[2] = 75
    /\ \E k \in 1..Len(audioGraphs) : audioGraphs[k].gain[5] # 0

\* C30: every message the audio host handles is answered: no request is left
\* without a response because its handler threw
C30_AlwaysAnswered == \A c \in Slots : calls[c].h # "hung"

\* the request invocation c sent to the audio host has failed: the send was
\* rejected (lastError) or the host answered ok:false
HostFailed(c) == calls[c].h = "resp" /\ calls[c].hres \in {"err", "fail"}

\* C31: when the request a START_EQ, STOP_EQ, SET_VOLUME, GET_VOLUME or
\* REINIT_MISSING_AUDIO handler sent to the audio host has failed, the caller is
\* answered ok:false with an error.
C31_HostFailureReported ==
  [][\A c \in Calls :
       (/\ calls[c].op \in {"start", "stop", "setvol", "getvol", "reconcile"}
        /\ HostFailed(c) /\ Returns(c))
         => calls'[c].res = "error"]_vars

\* the graph the audio host holds for tab t in map m, or none
GraphOf(m, t) == IF Has(m, t) THEN <<Get(m, t)>> ELSE <<>>
\* invocation c's host handler runs on this step
HostRuns(c) ==
  /\ calls[c].h \in {"sent", "resume", "capture", "close"}
  /\ calls'[c] # calls[c]
HostReads == {"GET_EQ_NODES", "GET_SPECTRUM_DATA", "GET_VOLUME", "GET_ACTIVE_TABS"}
\* C32: a step of an audio host handler working for tab A leaves the graph of
\* every other tab, and whether it has one, as they were; the handlers of
\* GET_EQ_NODES, GET_SPECTRUM_DATA, GET_VOLUME and GET_ACTIVE_TABS change no
\* graph at all.
C32_SessionsIsolated ==
  [][\A c \in Slots :
       HostRuns(c) =>
         /\ \A t \in SessionInputs :
              t # calls[c].cur => GraphOf(audioGraphs', t) = GraphOf(audioGraphs, t)
         /\ calls[c].msg \in HostReads => audioGraphs' = audioGraphs]_vars
\* a STOP_EQ for tab 1 was answered ok and removed its graph, while the graph
\* of tab 2, changed earlier by UPDATE_EQ_NODES and SET_VOLUME, is still there
C32_Witness ==
  \E c \in Calls :
    /\ calls[c].msg = "STOP_EQ" /\ calls[c].h = "resp" /\ calls[c].hres = "ok"
    /\ calls[c].cur = 1 /\ ~Has(audioGraphs, 1)
    /\ Has(audioGraphs, 2)
    /\ Get(audioGraphs, 2).gain[5] = 6 /\ Get(audioGraphs, 2).vol = 50

\* the invocations whose createDocument call has not settled
CreatingDocument(c) == calls[c].pc = "create"
\* C33: at no time have two invocations called createDocument without either
\* call having settled, and no START_EQ is answered ok:false out of its
\* ensureOffscreen call.
C33_EnsureOnce ==
  [][/\ Cardinality({c \in Slots : CreatingDocument(c)}') <= 1
     /\ \A c \in Calls :
          (calls[c].op = "start" /\ CreatingDocument(c) /\ Returns(c))
            => calls'[c].res # "error"]_vars

\* 10^((G - 0.1) / 10) and 10^((G + 0.1) / 10) bracket the fractions lo and hi
TenthOfDecibel(gainDb) ==
  CASE gainDb = Ratio(144, 5) -> [lo |-> Whole(742), hi |-> Whole(776)]
    [] gainDb = Whole(15) -> [lo |-> Whole(31), hi |-> Whole(32)]
    [] gainDb = Whole(6) -> [lo |-> Ratio(39, 10), hi |-> Ratio(407, 100)]
    [] gainDb = Whole(-6) -> [lo |-> Ratio(123, 500), hi |-> Ratio(257, 1000)]
    [] gainDb = Whole(-15) -> [lo |-> Ratio(31, 1000), hi |-> Ratio(323, 10000)]
    [] gainDb = Ratio(-144, 5) -> [lo |-> Ratio(129, 100000), hi |-> Ratio(337, 250000)]
    [] OTHER -> [lo |-> Whole(1), hi |-> Whole(1)]
\* C34: the curve of a peaking filter, at the filter's own centre frequency, is
\* within 0.1 dB of the filter's gain: 10^(magnitudeDb / 10) lies between
\* 10^((G - 0.1) / 10) and 10^((G + 0.1) / 10).
C34_PeakAtCentre ==
  \A i \in 1..Len(popup.curve) :
    LET r == popup.curve[i] IN
    (r.drawn /\ r.index \notin {2, 12}) =>
      /\ ~r.power.floored /\ Finite(r.power.value)
      /\ ~LessThan(r.power.value, TenthOfDecibel(r.gainDb).lo)
      /\ ~LessThan(TenthOfDecibel(r.gainDb).hi, r.power.value)
\* a peaking curve drawn for 28.8 dB with base Q 0.5 at the centre frequency
\* whose cosine is negative
C34_Witness ==
  /\ popup.curve # <<>> /\ popup.curve[1].drawn /\ popup.curve[1].index = 5
  /\ popup.curve[1].gainDb = Ratio(144, 5)
  /\ popup.w0.cos = Ratio(-3, 5) /\ popup.baseQ # NoMap
  /\ popup.curve[1].power.value = Ratio(194481, 256)

\* no handler is running and no message is under way
Quiescent == \A c \in Slots : calls[c].pc \in {"free", "done"}
\* C35: when nothing fails and the worker is not reloaded, whenever no handler
\* is running the tabs of eqSessions are the tabs the audio host has a graph
\* for.
C35_QuiescentAgreement == Quiescent => KeySet(eqSessions) = KeySet(audioGraphs)

\* a START_EQ for tab t holds the lock and has registered the tab as starting
StartInFlight(t) ==
  /\ t \in startingTabs
  /\ Has(eqSessions, t) /\ Get(eqSessions, t).status = "starting"
\* C36: REINIT_MISSING_AUDIO calls getMediaStreamId and sends INIT_AUDIO for no
\* tab whose START_EQ is still running with the tab registered as starting.
C36_NoDuplicateStart ==
  [][\A c \in Calls :
       (/\ calls[c].op = "reconcile"
        /\ calls'[c].op = "reconcile" /\ calls'[c].pc \in {"cap", "init"}
        /\ calls'[c].pc # calls[c].pc)
         => ~StartInFlight(calls'[c].cur)]_vars

\* a REINIT_MISSING_AUDIO and a STOP_EQ for tab t have both completed, the
\* STOP_EQ with ok
BothCompleted(t) ==
  \E c, d \in Calls :
    /\ calls[c].op = "reconcile" /\ calls[c].pc = "done"
    /\ calls[d].op = "stop" /\ calls[d].pc = "done" /\ calls[d].tab = t
    /\ calls[d].res = "ok"
\* C37: every STOP_EQ arriving while REINIT_MISSING_AUDIO is re-creating its
\* tab: once both have completed the audio host has no graph for the tab and
\* eqSessions has no entry for it.
C37_StoppedStaysStopped ==
  \A t \in TabIds :
    BothCompleted(t) => ~Has(audioGraphs, t) /\ ~Has(eqSessions, t)

\* the startup rehydration completes on this step
RehydrateCompletes ==
  /\ calls[0].op = "rehydrate" /\ calls[0].pc \in {"tabs", "ids"}
  /\ calls'[0].op = "rehydrate" /\ calls'[0].pc = "done"
\* C38: when the startup rehydration completes, eqSessions lists no tab whose
\* STOP_EQ was answered ok while the rehydration was running.
C38_RehydrateKeepsStopped ==
  [][RehydrateCompletes =>
       \A d \in Calls :
         (calls[d].op = "stop" /\ calls[d].pc = "done" /\ calls[d].res = "ok")
           => ~Has(eqSessions', calls[d].tab)]_vars

\* the status of tab t's entry in registry m
StatusOf(m, t) == IF Has(m, t) THEN Get(m, t).status ELSE "none"
\* C39: no step changes the status of an entry that stays in eqSessions other
\* than from starting to active: starting is written only for a tab that has
\* no entry.
C39_StatusMonotonic ==
  [][\A t \in TabIds :
       (Has(eqSessions, t) /\ Has(eqSessions', t))
         => \/ StatusOf(eqSessions', t) = StatusOf(eqSessions, t)
            \/ /\ StatusOf(eqSessions, t) = "starting"
               /\ StatusOf(eqSessions', t) = "active"]_vars

\* a START_EQ handler that holds the starting lock and has not returned
StartRunning(c) == calls[c].op = "start" /\ calls[c].pc \notin {"free", "done"}
\* a START_EQ handler has answered its caller and its tab is not locked
StartReturned(c) ==
  calls[c].op = "start" /\ calls[c].pc = "done" /\ ~LockHeld(calls[c].tab)
\* C40: when every request completes, a START_EQ that took the starting lock
\* eventually answers its caller with the lock released, and no tab stays in
\* startingTabs forever.
C40_StartCompletes ==
  /\ \A c \in Calls : StartRunning(c) ~> StartReturned(c)
  /\ \A t \in TabInputs : LockHeld(t) ~> ~LockHeld(t)
\* a START_EQ for a tab took the lock, had a request fail and has answered
C40_Witness ==
  \E c \in Calls :
    /\ StartReturned(c)
    /\ calls[c].tab # 0
    /\ calls[c].res = "error"

====
